---- MODULE Spec2Model ----
(***************************************************************************)
(* Session tracking: the ingestion path of track.py (track, derive_status),*)
(* the startup sweep cleanup_stale_sessions, the user actions of the       *)
(* dashboards that write the sessions table (dismiss, toggle pending), and *)
(* the bridge watcher of server.py, which tails the event files of the     *)
(* containers and forwards their records to track().                       *)
(*                                                                         *)
(* The store is the SQLite database: the sessions table is a function from *)
(* the session ids that have a row to their row, the events table is the   *)
(* sequence of its rows in id (AUTOINCREMENT) order.                       *)
(***************************************************************************)
EXTENDS Integers, Sequences, FiniteSets, TLC

(***************************************************************************)
(* Bounds of the model.                                                    *)
(***************************************************************************)
\* Spec stops ingesting once the events table holds MaxEvents rows.
MaxEvents == 3
\* SpecPanes (two sessions, tmux panes) stops at MaxPaneEvents rows.
MaxPaneEvents == 3
\* SpecRun (permission requests and completions) stops at MaxRunEvents rows.
MaxRunEvents == 6
\* SpecConc (concurrent hook processes) starts at most MaxConcEvents ingests.
MaxConcEvents == 3
\* SpecTxn (statements of the write transaction) commits at most MaxTxnEvents.
MaxTxnEvents == 3
\* SpecSweep (the startup sweep among ingests) stops at MaxSweepEvents rows.
MaxSweepEvents == 2
\* A bridge file holds at most MaxLines lines.
MaxLines == 2
\* The watchers stop forwarding after MaxForwards calls of track().
MaxForwards == 3
\* A watcher crashes at most MaxCrashes times.
MaxCrashes == 1
\* In SpecReplay the bridge file holds at most MaxReplayLines lines and the
\* watcher stops forwarding after MaxReplayForwards calls of track().
MaxReplayLines == 3
MaxReplayForwards == 4
\* In SpecToggle the user presses the pending key at most MaxToggles times.
MaxToggles == 2

(***************************************************************************)
(* Inputs.                                                                 *)
(***************************************************************************)
\* A key that the hook payload (a JSON object) does not carry.
Absent == "<absent>"

\* dict.get(key, default) of Python on a payload field.
Get(v, default) == IF v = Absent THEN default ELSE v

\* The session ids the event sources use.
SessionIds == {"s1", "s2"}

\* The hook payloads the event source sends: one per kind of event the state
\* machine tells apart, and one without hook_event_name.
Payload(n, t, tool) ==
    [hook_event_name |-> n, notification_type |-> t, tool_name |-> tool,
     model |-> Absent, cwd |-> Absent, transcript_path |-> Absent]

\* A PreToolUse payload with the metadata the event source may send along.
MergePayload(model, cwd, transcript_path) ==
    [Payload("PreToolUse", Absent, "Bash") EXCEPT
        !.model = model, !.cwd = cwd, !.transcript_path = transcript_path]

\* The payloads of SpecMerge: metadata absent, empty, and set in two ways.
MergePayloads ==
    { MergePayload(Absent, Absent, Absent),
      MergePayload("", "", ""),
      MergePayload("opus", "/src/a", "/src/a/t.jsonl"),
      MergePayload("sonnet", "/src/b", "/src/b/t.jsonl"),
      MergePayload("sonnet", Absent, "") }

HookPayloads ==
    { Payload("SessionEnd", Absent, Absent),
      Payload("Stop", Absent, Absent),
      Payload("Notification", "idle_prompt", Absent),
      Payload("Notification", "permission_prompt", Absent),
      Payload("Notification", "auth_success", Absent),
      Payload("PermissionRequest", Absent, "Bash"),
      Payload("PostToolUse", Absent, "Bash"),
      Payload("PostToolUseFailure", Absent, "Bash"),
      Payload("UserPromptSubmit", Absent, Absent),
      Payload("PreToolUse", Absent, "Bash"),
      Payload("SubagentStart", Absent, Absent),
      Payload(Absent, Absent, Absent) }

\* The payloads of SpecPanes: one per status a first event can leave.
PanePayloads ==
    { Payload("SessionEnd", Absent, Absent),
      Payload("PermissionRequest", Absent, "Bash"),
      Payload("SubagentStart", Absent, Absent) }

\* The payloads of SpecRun: permission requests, tool completions, and Stop.
RunPayloads ==
    { Payload("PermissionRequest", Absent, "Bash"),
      Payload("PostToolUse", Absent, "Bash"),
      Payload("PostToolUseFailure", Absent, "Bash"),
      Payload("Stop", Absent, Absent) }

\* The payloads of SpecCounters: prompts and tool events, and a prompt event
\* that carries a tool name.
CounterPayloads ==
    { Payload("UserPromptSubmit", Absent, Absent),
      Payload("UserPromptSubmit", Absent, "Bash"),
      Payload("PreToolUse", Absent, "Bash"),
      Payload("Stop", Absent, Absent) }

\* The payloads of SpecConc.
ConcPayloads ==
    { Payload("PermissionRequest", Absent, "Bash"),
      Payload("PostToolUse", Absent, "Bash"),
      Payload("Stop", Absent, Absent) }

\* The hook processes that can run track() at the same time.
Procs == {1, 2}

\* What track() learns about the multiplexer: the pane (TMUX_PANE or the
\* bridge's override) and the tmux session name of that pane; both empty
\* outside tmux.
TmuxInfo(pane, session) == [pane |-> pane, session |-> session]

TmuxPanes == {"%3", "%4"}

TmuxEnvs ==
    {TmuxInfo("", "")} \cup {TmuxInfo(p, "main") : p \in TmuxPanes}

\* The sets of live (session name, pane id) pairs `tmux list-panes -a` reports.
LivePaneSets == SUBSET {<<"main", p>> : p \in TmuxPanes}

\* What SpecSweep's hooks learn about the multiplexer: outside tmux, in pane
\* %3 with the session-name lookup failing, in pane %3 of session main.
SweepEnvs == {TmuxInfo("", ""), TmuxInfo("%3", ""), TmuxInfo("%3", "main")}

\* The tmux session names pane %3 can be in when the sweep runs (the pane
\* moved, or its session was renamed, since the hook ran).
SweepGroups == {"main", "work"}

\* What `tmux list-panes -a` reports to the sweep of SpecSweep.
SweepLiveSets == SUBSET {<<g, "%3">> : g \in SweepGroups}

\* The payloads of SpecSweep: permission requests, which leave waiting.
SweepPayloads == { Payload("PermissionRequest", Absent, "Bash") }

\* load_bridge_dirs(): the configured directories, in the order of the list.
BridgeDirs == <<"d1", "d2">>

\* The watcher threads (one per running dashboard or server).
Watchers == {1, 2}

\* What a container writes as one line of events.jsonl: a well-formed
\* record, text that is not JSON, a JSON number.
LineKinds == {"record", "text", "scalar"}

\* A line takes two cells of its file, the second ending with the newline;
\* offsets count cells. A reader of a file that ends with a first cell sees
\* the line in part.
Cell(kind, part) == [kind |-> kind, part |-> part]
Line(kind) == <<Cell(kind, "first"), Cell(kind, "last")>>

\* The well-formed record of the model: a permission request of session s1
\* in host pane %3, which is in tmux session main.
BridgeRecord ==
    [ session_id |-> "s1",
      data |-> Payload("PermissionRequest", Absent, "Bash"),
      tmux |-> TmuxInfo("%3", "main") ]

\* The kinds of line that are well-formed records: "record" holds
\* BridgeRecord, "completion" the PostToolUse of the same session.
RecordKinds == {"record", "completion"}

RecordOf(kind) ==
    IF kind = "completion"
    THEN [BridgeRecord EXCEPT !.data = Payload("PostToolUse", Absent, "Bash")]
    ELSE BridgeRecord

(***************************************************************************)
(* State.                                                                  *)
(***************************************************************************)
VARIABLES
    sessions,               \* sessions table: session_id -> row
    events,                 \* events table, in id order
    pending_reason_column,  \* whether the sessions table has pending_reason
    hist,                   \* observer: what each committed ingest left
    inflight,               \* per hook process: the track() call under way
    files,                  \* per bridge directory: its events.jsonl
    offsets,                \* per watcher: its in-memory offsets dict
    persisted,              \* the offsets file (bridge-offsets.json)
    watcher,                \* per watcher: where bridge_watcher() stands
    forwarded               \* observer: the track() calls of the watchers,
                            \* each with the run (start) of its watcher

\* The state of the bridge.
bridge == <<files, offsets, persisted, watcher, forwarded>>

vars == <<sessions, events, pending_reason_column, hist, inflight, bridge>>

(***************************************************************************)
(* derive_status and the pending_permissions counter.                      *)
(***************************************************************************)
\* Variant: a tool completion always clears 'waiting'.
derive_status_completion_active(event_name, pending_permissions, notification_type, current_status) ==
    IF event_name = "Stop" THEN "idle"
    ELSE IF event_name = "Notification" /\ notification_type = "idle_prompt" THEN "idle"
    ELSE IF event_name = "SessionEnd" THEN "ended"
    ELSE IF event_name = "PermissionRequest" THEN "waiting"
    ELSE IF event_name = "Notification" /\ notification_type = "permission_prompt"
        THEN "waiting"
    ELSE IF event_name \in {"PostToolUse", "PostToolUseFailure"} THEN "active"
    ELSE IF event_name \in {"UserPromptSubmit", "PreToolUse"} THEN "active"
    ELSE current_status

\* Variant: an event that is no status signal yields 'active'.
derive_status_default_active(event_name, pending_permissions, notification_type, current_status) ==
    IF event_name = "Stop" THEN "idle"
    ELSE IF event_name = "Notification" /\ notification_type = "idle_prompt" THEN "idle"
    ELSE IF event_name = "SessionEnd" THEN "ended"
    ELSE IF event_name = "PermissionRequest" THEN "waiting"
    ELSE IF event_name = "Notification" /\ notification_type = "permission_prompt"
        THEN "waiting"
    ELSE IF event_name \in {"PostToolUse", "PostToolUseFailure"}
        THEN (IF pending_permissions > 0 THEN "waiting" ELSE "active")
    ELSE "active"

derive_status(event_name, pending_permissions, notification_type, current_status) ==
    IF event_name = "Stop" THEN "idle"
    ELSE IF event_name = "Notification" /\ notification_type = "idle_prompt" THEN "idle"
    ELSE IF event_name = "SessionEnd" THEN "ended"
    ELSE IF event_name = "PermissionRequest" THEN "waiting"
    ELSE IF event_name = "Notification" /\ notification_type = "permission_prompt"
        THEN "waiting"
    ELSE IF event_name \in {"PostToolUse", "PostToolUseFailure"}
        THEN (IF pending_permissions > 0 THEN "waiting" ELSE "active")
    ELSE IF event_name \in {"UserPromptSubmit", "PreToolUse"} THEN "active"
    ELSE current_status

Max(a, b) == IF a >= b THEN a ELSE b

\* Variant: the decrement of a tool completion is not clamped at 0.
NewPending_unclamped(event_name, notification_type, current_pending) ==
    LET is_idle_notification ==
            event_name = "Notification" /\ notification_type = "idle_prompt"
    IN  IF event_name = "PermissionRequest" THEN current_pending + 1
        ELSE IF event_name \in {"PostToolUse", "PostToolUseFailure"}
            THEN current_pending - 1
        ELSE IF event_name \in {"Stop", "UserPromptSubmit", "SessionEnd"}
                \/ is_idle_notification
            THEN 0
        ELSE current_pending

\* Variant: the idle notification is not among the events that reset the counter.
NewPending_idle_keeps(event_name, notification_type, current_pending) ==
    IF event_name = "PermissionRequest" THEN current_pending + 1
    ELSE IF event_name \in {"PostToolUse", "PostToolUseFailure"}
        THEN Max(0, current_pending - 1)
    ELSE IF event_name \in {"Stop", "UserPromptSubmit", "SessionEnd"} THEN 0
    ELSE current_pending

\* Variant: the counter is a flag, a second request does not raise it.
NewPending_flag(event_name, notification_type, current_pending) ==
    LET is_idle_notification ==
            event_name = "Notification" /\ notification_type = "idle_prompt"
    IN  IF event_name = "PermissionRequest" THEN 1
        ELSE IF event_name \in {"PostToolUse", "PostToolUseFailure"}
            THEN Max(0, current_pending - 1)
        ELSE IF event_name \in {"Stop", "UserPromptSubmit", "SessionEnd"}
                \/ is_idle_notification
            THEN 0
        ELSE current_pending

\* Variant: the permission_prompt notification counts as a request too.
NewPending_prompt_counts(event_name, notification_type, current_pending) ==
    LET is_idle_notification ==
            event_name = "Notification" /\ notification_type = "idle_prompt"
    IN  IF event_name = "PermissionRequest"
           \/ (event_name = "Notification" /\ notification_type = "permission_prompt")
        THEN current_pending + 1
        ELSE IF event_name \in {"PostToolUse", "PostToolUseFailure"}
            THEN Max(0, current_pending - 1)
        ELSE IF event_name \in {"Stop", "UserPromptSubmit", "SessionEnd"}
                \/ is_idle_notification
            THEN 0
        ELSE current_pending

\* Variant: PreToolUse is among the events that reset the counter.
NewPending_tool_start_resets(event_name, notification_type, current_pending) ==
    LET is_idle_notification ==
            event_name = "Notification" /\ notification_type = "idle_prompt"
    IN  IF event_name = "PermissionRequest" THEN current_pending + 1
        ELSE IF event_name \in {"PostToolUse", "PostToolUseFailure"}
            THEN Max(0, current_pending - 1)
        ELSE IF event_name \in {"Stop", "UserPromptSubmit", "SessionEnd", "PreToolUse"}
                \/ is_idle_notification
            THEN 0
        ELSE current_pending

\* new_pending of track().
NewPending(event_name, notification_type, current_pending) ==
    LET is_idle_notification ==
            event_name = "Notification" /\ notification_type = "idle_prompt"
    IN  IF event_name = "PermissionRequest" THEN current_pending + 1
        ELSE IF event_name \in {"PostToolUse", "PostToolUseFailure"}
            THEN Max(0, current_pending - 1)
        ELSE IF event_name \in {"Stop", "UserPromptSubmit", "SessionEnd"}
                \/ is_idle_notification
            THEN 0
        ELSE current_pending

(***************************************************************************)
(* track(): what it computes from the payload and the row it read.         *)
(***************************************************************************)
\* The locals of track() once status is derived. `sess` is the sessions
\* table as the SELECT of the existing row sees it.
TrackLocals(session_id, data, tmux, sess) ==
    LET event_name == Get(data.hook_event_name, "unknown")
        notification_type == Get(data.notification_type, "")
        existing == session_id \in DOMAIN sess
        current_pending == IF existing THEN sess[session_id].pending_permissions ELSE 0
        current_status == IF existing THEN sess[session_id].status ELSE "active"
        new_pending == NewPending(event_name, notification_type, current_pending)
    IN  [ session_id |-> session_id,
          event_name |-> event_name,
          notification_type |-> notification_type,
          tool_name |-> Get(data.tool_name, ""),
          now |-> Len(events),
          model |-> Get(data.model, ""),
          cwd |-> Get(data.cwd, ""),
          transcript_path |-> Get(data.transcript_path, ""),
          pane |-> tmux.pane,
          tmux_session |-> tmux.session,
          existing |-> existing,
          new_pending |-> new_pending,
          status |-> derive_status(event_name, new_pending, notification_type,
                                   current_status) ]

\* The UPDATE of an existing row.
UpdateRow_overwrites_blank(row, loc) == [row EXCEPT !.last_activity = loc.now, !.last_event = loc.event_name, !.status = loc.status, !.pending_permissions = loc.new_pending, !.model = loc.model, !.project_dir = loc.cwd, !.transcript_path = loc.transcript_path, !.tmux_pane = loc.pane, !.tmux_session = loc.tmux_session]
UpdateRow_clears_priority(row, loc) == [row EXCEPT !.last_event = loc.event_name, !.status = loc.status, !.pending_permissions = loc.new_pending, !.is_priority = 0]
UpdateRow(row, loc) ==
    [ row EXCEPT
        !.last_activity = loc.now,
        !.last_event = loc.event_name,
        !.status = loc.status,
        !.pending_permissions = loc.new_pending,
        !.model = IF loc.model # "" THEN loc.model ELSE @,
        !.project_dir = IF loc.cwd # "" THEN loc.cwd ELSE @,
        !.transcript_path = IF loc.transcript_path # "" THEN loc.transcript_path ELSE @,
        !.tmux_pane = IF loc.pane # "" THEN loc.pane ELSE @,
        !.tmux_session = IF loc.tmux_session # "" THEN loc.tmux_session ELSE @,
        !.prompt_count = IF loc.event_name = "UserPromptSubmit" THEN @ + 1 ELSE @,
        !.tool_count = IF loc.event_name # "UserPromptSubmit" /\ loc.tool_name # ""
                       THEN @ + 1 ELSE @ ]

\* The row that the INSERT of a new session writes.
InsertRow(loc) ==
    [ status |-> loc.status,
      pending_permissions |-> loc.new_pending,
      tmux_pane |-> loc.pane,
      tmux_session |-> loc.tmux_session,
      last_activity |-> loc.now,
      last_event |-> loc.event_name,
      model |-> loc.model,
      project_dir |-> loc.cwd,
      transcript_path |-> loc.transcript_path,
      prompt_count |-> IF loc.event_name = "UserPromptSubmit" THEN 1 ELSE 0,
      tool_count |-> IF loc.tool_name # "" THEN 1 ELSE 0,
      is_priority |-> 0 ]

\* Variant: the sessions already on the pane are left as they are.
EndOthersOnPane_skipped(sess, pane, session_id) == sess

\* Variant: every other open session is ended, whatever its pane.
EndOthersOnPane_any_pane(sess, pane, session_id) == [s \in DOMAIN sess |-> IF s # session_id /\ sess[s].status \notin {"ended", "dismissed"} THEN [sess[s] EXCEPT !.status = "ended"] ELSE sess[s]]

\* New session with a pane: end the other sessions on that pane.
EndOthersOnPane(sess, pane, session_id) ==
    [ s \in DOMAIN sess |->
        IF /\ pane # ""
           /\ sess[s].tmux_pane = pane
           /\ s # session_id
           /\ sess[s].status \notin {"ended", "dismissed"}
        THEN [sess[s] EXCEPT !.status = "ended"]
        ELSE sess[s] ]

\* The sessions table after the row write of track().
WriteSession(sess, loc) ==
    IF loc.existing
    THEN [sess EXCEPT ![loc.session_id] = UpdateRow(@, loc)]
    ELSE EndOthersOnPane(sess, loc.pane, loc.session_id)
            @@ (loc.session_id :> InsertRow(loc))

\* The row appended to the events table.
EventRecord_unkeyed(loc) == [session_id |-> "", event_type |-> loc.event_name, tool_name |-> loc.tool_name]
EventRecord_untyped(loc) == [session_id |-> loc.session_id, event_type |-> "", tool_name |-> loc.tool_name]
EventRecord(loc) ==
    [ session_id |-> loc.session_id,
      event_type |-> loc.event_name,
      tool_name |-> loc.tool_name ]

\* Observer entry of one committed ingest: the event, the counter and status
\* of its session in the table `after` the commit, and the other sessions
\* whose status the commit changed from what it was `before`.
Observation(loc, before, after) ==
    [ session_id |-> loc.session_id,
      event_name |-> loc.event_name,
      notification_type |-> loc.notification_type,
      pending |-> after[loc.session_id].pending_permissions,
      status |-> after[loc.session_id].status,
      ended_others |-> { s \in DOMAIN before \ {loc.session_id} :
                            after[s].status # before[s].status } ]

\* A watcher that is not running, after c crashes.
WatcherDown(c) ==
    [ pc |-> "down", dir |-> 1, start |-> 0, batch |-> << >>, i |-> 1,
      new_offset |-> 0, calls |-> 0, crashes |-> c ]

Range(f) == { f[x] : x \in DOMAIN f }

(***************************************************************************)
(* Operations, each one whole handler.                                     *)
(***************************************************************************)
Init ==
    /\ sessions = << >>
    /\ events = << >>
    /\ pending_reason_column \in BOOLEAN
    /\ hist = << >>
    /\ inflight = [p \in Procs |-> [pc |-> "idle"]]
    /\ files = [d \in Range(BridgeDirs) |-> << >>]
    /\ offsets = [w \in Watchers |-> << >>]
    /\ persisted = [text |-> "missing", table |-> << >>]
    /\ watcher = [w \in Watchers |-> WatcherDown(0)]
    /\ forwarded = << >>

\* track(data), from the SELECT to the commit: what it writes.
Ingest(session_id, data, tmux) ==
    LET loc == TrackLocals(session_id, data, tmux, sessions) IN
        /\ sessions' = WriteSession(sessions, loc)
        /\ events' = Append(events, EventRecord(loc))
        /\ hist' = Append(hist, Observation(loc, sessions, sessions'))

\* track(data) called by one hook invocation.
Track(session_id, data, tmux) ==
    /\ Ingest(session_id, data, tmux)
    /\ UNCHANGED <<pending_reason_column, inflight, bridge>>

\* Variant: the sweep resets the counter of the rows it ends.
CleanupRow_clears_pending(row, active_panes) == IF row.status \in {"active", "waiting", "idle"} /\ (row.tmux_pane = "" \/ row.tmux_session = "" \/ <<row.tmux_session, row.tmux_pane>> \notin active_panes) THEN [row EXCEPT !.status = "ended", !.pending_permissions = 0] ELSE row

\* The status a cleanup_stale_sessions run leaves in a row.
CleanupRow(row, active_panes) ==
    IF /\ row.status \in {"active", "waiting", "idle"}
       /\ \/ row.tmux_pane = ""
          \/ row.tmux_session = ""
          \/ <<row.tmux_session, row.tmux_pane>> \notin active_panes
    THEN [row EXCEPT !.status = "ended"]
    ELSE row

\* cleanup_stale_sessions(), with the live panes tmux reports.
Cleanup(active_panes) ==
    /\ sessions' = [s \in DOMAIN sessions |-> CleanupRow(sessions[s], active_panes)]
    /\ UNCHANGED <<events, pending_reason_column, hist, inflight, bridge>>

\* action_dismiss / dismiss_session: UPDATE ... SET status = 'dismissed'.
Dismiss(session_id) ==
    /\ session_id \in DOMAIN sessions
    /\ sessions' = [sessions EXCEPT ![session_id].status = "dismissed"]
    /\ UNCHANGED <<events, pending_reason_column, hist, inflight, bridge>>

\* The status action_toggle_pending writes: idle for a session shown as
\* pending, pending otherwise. The UPDATE names the pending_reason column
\* and raises (the exception is swallowed) when the table lacks it.
TogglePendingStatus(status, has_column) ==
    IF ~has_column THEN status
    ELSE IF status = "pending" THEN "idle"
    ELSE "pending"

\* action_toggle_pending on the selected session (the dashboard's view of
\* the session is current: it is refreshed after every action).
TogglePending(session_id) ==
    /\ session_id \in DOMAIN sessions
    /\ sessions' = [sessions EXCEPT ![session_id].status =
                        TogglePendingStatus(@, pending_reason_column)]
    /\ UNCHANGED <<events, pending_reason_column, hist, inflight, bridge>>

\* action_toggle_pending with the dashboard process p noting what it did:
\* the session it acted on, the status it showed for it, and how many times
\* the key was pressed.
TogglePendingSeen(p, session_id) ==
    /\ session_id \in DOMAIN sessions
    /\ LET n == IF inflight[p].pc = "toggled" THEN inflight[p].n ELSE 0 IN
        /\ n < MaxToggles
        /\ inflight' = [inflight EXCEPT ![p] =
                [pc |-> "toggled", session_id |-> session_id,
                 shown |-> sessions[session_id].status, n |-> n + 1]]
    /\ sessions' = [sessions EXCEPT ![session_id].status =
                        TogglePendingStatus(@, pending_reason_column)]
    /\ UNCHANGED <<events, pending_reason_column, hist, bridge>>

\* action_toggle_priority: SELECT COALESCE(is_priority, 0), then UPDATE
\* ... SET is_priority = 0 if it was set, 1 if not.
TogglePriority(session_id) ==
    /\ session_id \in DOMAIN sessions
    /\ sessions' = [sessions EXCEPT ![session_id].is_priority =
                        IF @ # 0 THEN 0 ELSE 1]
    /\ UNCHANGED <<events, pending_reason_column, hist, inflight, bridge>>

\* Spec: the events of one session outside tmux, every kind of payload.
TrackOne(session_id, data, tmux) ==
    /\ Len(events) < MaxEvents
    /\ Track(session_id, data, tmux)

Next ==
    \/ \E d \in HookPayloads : TrackOne("s1", d, TmuxInfo("", ""))
    \/ \E a \in LivePaneSets : Cleanup(a)
    \/ \E s \in SessionIds : Dismiss(s)
    \/ \E s \in SessionIds : TogglePending(s)

Spec == Init /\ [][Next]_vars

\* SpecToggle: permission requests, completions and Stop of one session,
\* and the user's pending key.
NextToggle ==
    \/ \E d \in ConcPayloads : TrackOne("s1", d, TmuxInfo("", ""))
    \/ \E s \in SessionIds : TogglePendingSeen(1, s)

SpecToggle == Init /\ [][NextToggle]_vars

\* SpecCounters: prompts and tool events of two sessions, sweeps and
\* dismissals.
NextCounters ==
    \/ \E s \in SessionIds, d \in CounterPayloads : TrackOne(s, d, TmuxInfo("%3", "main"))
    \/ \E a \in LivePaneSets : Cleanup(a)
    \/ \E s \in SessionIds : Dismiss(s)

SpecCounters == Init /\ [][NextCounters]_vars

\* SpecPriority: the events of two sessions in one pane, sweeps,
\* dismissals, and the user's priority key.
NextPriority ==
    \/ \E s \in SessionIds, d \in ConcPayloads : TrackOne(s, d, TmuxInfo("%3", "main"))
    \/ \E a \in LivePaneSets : Cleanup(a)
    \/ \E s \in SessionIds : Dismiss(s)
    \/ \E s \in SessionIds : TogglePriority(s)

SpecPriority == Init /\ [][NextPriority]_vars

\* SpecPanes: two sessions in the panes of a tmux server.
TrackPane(session_id, data, tmux) ==
    /\ Len(events) < MaxPaneEvents
    /\ Track(session_id, data, tmux)

NextPanes ==
    \/ \E s \in SessionIds, d \in PanePayloads, t \in TmuxEnvs : TrackPane(s, d, t)
    \/ \E a \in LivePaneSets : Cleanup(a)
    \/ \E s \in SessionIds : Dismiss(s)
    \/ \E s \in SessionIds : TogglePending(s)

SpecPanes == Init /\ [][NextPanes]_vars

\* SpecRun: permission requests and tool completions of one session.
TrackRun(session_id, data, tmux) ==
    /\ Len(events) < MaxRunEvents
    /\ Track(session_id, data, tmux)

NextRun ==
    \/ \E d \in RunPayloads : TrackRun("s1", d, TmuxInfo("", ""))
    \/ \E s \in SessionIds : Dismiss(s)

SpecRun == Init /\ [][NextRun]_vars

\* SpecPaneIngest: SpecPanes with ingestion alone.
NextPaneIngest ==
    \E s \in SessionIds, d \in PanePayloads, t \in TmuxEnvs : TrackPane(s, d, t)

SpecPaneIngest == Init /\ [][NextPaneIngest]_vars

(***************************************************************************)
(* Concurrent hook processes. track() reads the existing row with a SELECT *)
(* in autocommit mode; the write transaction begins with the UPDATE or     *)
(* INSERT and ends at db.commit(), so other connections see its writes all *)
(* at once, and it sees the table as it is when it begins.                 *)
(***************************************************************************)
\* track() up to the derived status: the SELECT and the locals.
TrackSelect(p, session_id, data, tmux) ==
    /\ inflight[p].pc = "idle"
    /\ Len(events) + Cardinality({q \in Procs : inflight[q].pc # "idle"}) < MaxConcEvents
    /\ inflight' = [inflight EXCEPT ![p] =
            [pc |-> "selected", loc |-> TrackLocals(session_id, data, tmux, sessions)]]
    /\ UNCHANGED <<sessions, events, pending_reason_column, hist, bridge>>

\* The INSERT of a session that got its row since the SELECT violates the
\* primary key.
InsertFails_never(sess, loc) == FALSE
InsertFails(sess, loc) == ~loc.existing /\ loc.session_id \in DOMAIN sess

\* track() from the row write to db.commit().
TrackCommit(p) ==
    /\ inflight[p].pc = "selected"
    /\ ~InsertFails(sessions, inflight[p].loc)
    /\ LET loc == inflight[p].loc IN
        /\ sessions' = WriteSession(sessions, loc)
        /\ events' = Append(events, EventRecord(loc))
        /\ hist' = Append(hist, Observation(loc, sessions, sessions'))
    /\ inflight' = [inflight EXCEPT ![p] = [pc |-> "idle"]]
    /\ UNCHANGED <<pending_reason_column, bridge>>

\* track() raising sqlite3.IntegrityError at the INSERT: the connection is
\* dropped with its transaction open, which rolls the transaction back.
TrackInsertError(p) ==
    /\ inflight[p].pc = "selected"
    /\ InsertFails(sessions, inflight[p].loc)
    /\ inflight' = [inflight EXCEPT ![p] = [pc |-> "idle"]]
    /\ UNCHANGED <<sessions, events, pending_reason_column, hist, bridge>>

NextConc ==
    \/ \E p \in Procs, d \in ConcPayloads : TrackSelect(p, "s1", d, TmuxInfo("", ""))
    \/ \E p \in Procs : TrackCommit(p)
    \/ \E p \in Procs : TrackInsertError(p)

SpecConc == Init /\ [][NextConc]_vars

\* SpecRows: the hooks of two sessions in one pane, run by two processes at
\* a time, among sweeps and dismissals of the dashboard.
NextRows ==
    \/ \E p \in Procs, s \in SessionIds, d \in PanePayloads :
            TrackSelect(p, s, d, TmuxInfo("%3", "main"))
    \/ \E p \in Procs : TrackCommit(p)
    \/ \E p \in Procs : TrackInsertError(p)
    \/ \E a \in LivePaneSets : Cleanup(a)
    \/ \E s \in SessionIds : Dismiss(s)

SpecRows == Init /\ [][NextRows]_vars

\* SpecMerge: events of one session that carry, or do not carry, a pane,
\* a model, a working directory and a transcript path.
NextMerge ==
    \/ \E p \in Procs, d \in MergePayloads, t \in TmuxEnvs :
            TrackSelect(p, "s1", d, t)
    \/ \E p \in Procs : TrackCommit(p)
    \/ \E p \in Procs : TrackInsertError(p)

SpecMerge == Init /\ [][NextMerge]_vars

(***************************************************************************)
(* The write transaction of track(), statement by statement. The database  *)
(* has one writer at a time: the first write statement takes the write     *)
(* lock, which the connection holds until it commits or is dropped.        *)
(* `sessions` and `events` are the committed tables, which is what every   *)
(* other connection reads; the writer's own view is in inflight[p].        *)
(***************************************************************************)
\* sqlite3.connect(DB_PATH) with an isolation_level: whether every statement
\* commits by itself.
Autocommit_on == TRUE
Autocommit == FALSE

\* The processes that hold the write lock.
Writers == { q \in Procs : inflight[q].pc \in {"written", "evented"} }

\* The UPDATE or INSERT of the session row, with the UPDATE that ends the
\* other sessions of the pane: begins the write transaction.
TxnWrite(p) ==
    /\ inflight[p].pc = "selected"
    /\ Writers = {}
    /\ ~InsertFails(sessions, inflight[p].loc)
    /\ LET loc == inflight[p].loc
           written == WriteSession(sessions, loc) IN
        /\ inflight' = [inflight EXCEPT ![p] =
               [pc |-> "written", loc |-> loc, before |-> sessions,
                tx_sessions |-> written]]
        /\ sessions' = IF Autocommit THEN written ELSE sessions
    /\ UNCHANGED <<events, pending_reason_column, hist, bridge>>

\* The INSERT INTO events, inside the same transaction.
TxnEvent(p) ==
    /\ inflight[p].pc = "written"
    /\ inflight' = [inflight EXCEPT ![p].pc = "evented"]
    /\ events' = IF Autocommit THEN Append(events, EventRecord(inflight[p].loc))
                 ELSE events
    /\ UNCHANGED <<sessions, pending_reason_column, hist, bridge>>

\* db.commit(): the row write and the event row reach the other connections.
TxnCommit(p) ==
    /\ inflight[p].pc = "evented"
    /\ LET loc == inflight[p].loc IN
        /\ sessions' = IF Autocommit THEN sessions ELSE inflight[p].tx_sessions
        /\ events' = IF Autocommit THEN events ELSE Append(events, EventRecord(loc))
        /\ hist' = Append(hist, Observation(loc, inflight[p].before, inflight[p].tx_sessions))
    /\ inflight' = [inflight EXCEPT ![p] = [pc |-> "idle"]]
    /\ UNCHANGED <<pending_reason_column, bridge>>

\* track() ending before db.commit() (the write lock not obtained within
\* the busy timeout, an error raised by a statement, the process killed):
\* the connection is dropped and its open transaction rolled back.
TxnAbort(p) ==
    /\ inflight[p].pc \in {"selected", "written", "evented"}
    /\ inflight' = [inflight EXCEPT ![p] = [pc |-> "idle"]]
    /\ UNCHANGED <<sessions, events, pending_reason_column, hist, bridge>>

\* SpecTxn: two hook processes of two sessions in one pane.
TxnSelect(p, session_id, data, tmux) ==
    /\ Len(events) + Cardinality(Writers) < MaxTxnEvents
    /\ TrackSelect(p, session_id, data, tmux)

NextTxn ==
    \/ \E p \in Procs, s \in SessionIds, d \in PanePayloads :
            TxnSelect(p, s, d, TmuxInfo("%3", "main"))
    \/ \E p \in Procs : TxnWrite(p)
    \/ \E p \in Procs : TxnEvent(p)
    \/ \E p \in Procs : TxnCommit(p)
    \/ \E p \in Procs : TxnAbort(p)
    \/ \E p \in Procs : TrackInsertError(p)

SpecTxn == Init /\ [][NextTxn]_vars

(***************************************************************************)
(* cleanup_stale_sessions() statement by statement, run once by a starting *)
(* dashboard process: the SELECT is its own read, the UPDATEs of the stale *)
(* sessions are one transaction.                                           *)
(***************************************************************************)
\* Whether the sweep puts a row it has read on its stale list.
Stale_always(row, active_panes) == TRUE
Stale(row, active_panes) ==
    \/ row.tmux_pane = ""
    \/ row.tmux_session = ""
    \/ <<row.tmux_session, row.tmux_pane>> \notin active_panes

\* The session ids the SELECT of the sweep returns.
SweepRows(sess) ==
    { s \in DOMAIN sess : sess[s].status \in {"active", "waiting", "idle"} }

\* tmux list-panes, the SELECT and the loop that collects the stale ids.
\* `table` is the sessions table as the SELECT found it.
SweepSelect(p, active_panes) ==
    /\ inflight[p].pc = "idle"
    /\ inflight' = [inflight EXCEPT ![p] =
            [pc |-> "swept", active_panes |-> active_panes, table |-> sessions,
             stale |-> { s \in SweepRows(sessions) : Stale(sessions[s], active_panes) }]]
    /\ UNCHANGED <<sessions, events, pending_reason_column, hist, bridge>>

\* executemany(UPDATE sessions SET status = 'ended' WHERE session_id = ?)
\* and the commit; the dashboard process then goes on to its main loop.
SweepWrite(p) ==
    /\ inflight[p].pc = "swept"
    /\ sessions' = [s \in DOMAIN sessions |->
                        IF s \in inflight[p].stale
                        THEN [sessions[s] EXCEPT !.status = "ended"]
                        ELSE sessions[s]]
    /\ inflight' = [inflight EXCEPT ![p].pc = "done"]
    /\ UNCHANGED <<events, pending_reason_column, hist, bridge>>

\* What subprocess.run(["tmux", "list-panes", ...]) gives the sweep: it
\* raises (no tmux binary, timeout), or it returns the lines of stdout,
\* each line a list of words (no line when no server is running).
TmuxResults ==
    { [raised |-> TRUE, stdout |-> {}],
      [raised |-> FALSE, stdout |-> {}],
      [raised |-> FALSE, stdout |-> {<<"main", "%3">>}],
      [raised |-> FALSE, stdout |-> {<<"my", "work", "%3">>}] }

\* The set active_panes: empty when the call raised, otherwise one pair for
\* every line of two words.
ActivePanes_assumes_live(result) == IF result.raised THEN {<<g, "%3">> : g \in SweepGroups} ELSE { <<l[1], l[2]>> : l \in { x \in result.stdout : Len(x) = 2 } }
ActivePanes(result) ==
    IF result.raised THEN {}
    ELSE { <<l[1], l[2]>> : l \in { x \in result.stdout : Len(x) = 2 } }

\* The sweep from tmux list-panes to the list of stale ids, with the
\* outcome of list-panes noted.
SweepList(p, result) ==
    /\ inflight[p].pc = "idle"
    /\ inflight' = [inflight EXCEPT ![p] =
            [pc |-> "swept", listed |-> result,
             active_panes |-> ActivePanes(result), table |-> sessions,
             stale |-> { s \in SweepRows(sessions) :
                            Stale(sessions[s], ActivePanes(result)) }]]
    /\ UNCHANGED <<sessions, events, pending_reason_column, hist, bridge>>

\* SpecSweep: starting dashboards among the hooks of two sessions and the
\* actions of a running dashboard.
TrackSweep(session_id, data, tmux) ==
    /\ Len(events) < MaxSweepEvents
    /\ Track(session_id, data, tmux)

NextSweep ==
    \/ \E s \in SessionIds, d \in SweepPayloads, t \in SweepEnvs : TrackSweep(s, d, t)
    \/ \E a \in SweepLiveSets : SweepSelect(1, a)
    \/ SweepWrite(1)
    \/ \E s \in SessionIds : Dismiss(s)
    \/ \E s \in SessionIds : TogglePending(s)

SpecSweep == Init /\ [][NextSweep]_vars

\* SpecSweepList: SpecSweep with the outcomes of tmux list-panes.
NextSweepList ==
    \/ \E s \in SessionIds, d \in SweepPayloads, t \in SweepEnvs : TrackSweep(s, d, t)
    \/ \E r \in TmuxResults : SweepList(1, r)
    \/ SweepWrite(1)
    \/ \E s \in SessionIds : Dismiss(s)
    \/ \E s \in SessionIds : TogglePending(s)

SpecSweepList == Init /\ [][NextSweepList]_vars

(***************************************************************************)
(* The bridge: containers append lines to <dir>/.claude-tracking-bridge/   *)
(* events.jsonl; bridge_watcher() reads what is new in each file and calls *)
(* track() for every record.                                               *)
(***************************************************************************)
\* dict.get(key, 0) on an offsets dict.
OffsetOf(table, d) == IF d \in DOMAIN table THEN table[d] ELSE 0

\* offsets[bridge_file] = new_offset.
SetOffset(table, d, n) ==
    [x \in DOMAIN table \cup {d} |-> IF x = d THEN n ELSE table[x]]

\* load_offsets(): the dict in the offsets file; {} when the file is
\* missing or does not hold a JSON document.
LoadOffsets_nothing(file) == << >>
LoadOffsets(file) == IF file.text = "json" THEN file.table ELSE << >>

\* new_data.splitlines() on the cells read from offset pos on: the lines and
\* the offset each begins at. A first cell with its last cell is a whole
\* line; a cell without its partner is a line of its own.
RECURSIVE SplitLines(_, _)
SplitLines(data, pos) ==
    IF data = << >> THEN << >>
    ELSE IF Len(data) >= 2 /\ data[1].part = "first" /\ data[2].part = "last"
    THEN <<[pos |-> pos, kind |-> data[1].kind, whole |-> TRUE]>>
            \o SplitLines(SubSeq(data, 3, Len(data)), pos + 2)
    ELSE <<[pos |-> pos, kind |-> data[1].kind, whole |-> FALSE]>>
            \o SplitLines(Tail(data), pos + 1)

\* json.loads(line): a JSON object for a whole record line, another JSON
\* value for a number or a piece of a number, JSONDecodeError for text and
\* for a piece of a record.
JsonLoads(line) ==
    IF line.kind = "scalar" THEN "value"
    ELSE IF line.kind \in RecordKinds /\ line.whole THEN "object"
    ELSE "error"

\* The lines of the batch are all handled: the for loop over the lines ends.
BatchDone_anytime(w) == TRUE
BatchDone(w) == watcher[w].i > Len(watcher[w].batch)

\* The directory the watcher is at, and the line it is at.
DirOf(w) == BridgeDirs[watcher[w].dir]
LineOf_backwards(w) == watcher[w].batch[Len(watcher[w].batch) + 1 - watcher[w].i]
LineOf(w) == watcher[w].batch[watcher[w].i]

\* The watcher at the head of the for loop over the directories.
WatcherAt(w, dir) ==
    [ pc |-> "scan", dir |-> dir, start |-> 0, batch |-> << >>, i |-> 1,
      new_offset |-> 0, calls |-> 0, crashes |-> watcher[w].crashes ]

\* The watcher asleep in stop_event.wait(2).
WatcherWaiting(w) == [WatcherAt(w, 1) EXCEPT !.pc = "wait"]

\* A worker appends one line with one write that readers see whole.
AppendLineUpTo(d, kind, max) ==
    /\ Len(files[d]) % 2 = 0
    /\ Len(files[d]) < 2 * max
    /\ files' = [files EXCEPT ![d] = @ \o Line(kind)]
    /\ UNCHANGED <<sessions, events, pending_reason_column, hist, inflight,
                   offsets, persisted, watcher, forwarded>>

AppendLine(d, kind) == AppendLineUpTo(d, kind, MaxLines)

\* The thread starts: offsets = load_offsets().
WatcherStart(w) ==
    /\ watcher[w].pc = "down"
    /\ offsets' = [offsets EXCEPT ![w] = LoadOffsets(persisted)]
    /\ watcher' = [watcher EXCEPT ![w] = WatcherAt(w, 1)]
    /\ UNCHANGED <<sessions, events, pending_reason_column, hist, inflight,
                   files, persisted, forwarded>>

\* One directory of the for loop, up to the read: a file that is missing or
\* not longer than the offset is passed over, otherwise the watcher reads
\* from the offset to the end of the file.
WatcherScan(w) ==
    /\ watcher[w].pc = "scan"
    /\ watcher[w].dir <= Len(BridgeDirs)
    /\ LET d == DirOf(w)
           file_size == Len(files[d])
           offset == OffsetOf(offsets[w], d) IN
        watcher' = [watcher EXCEPT ![w] =
            IF file_size <= offset
            THEN WatcherAt(w, watcher[w].dir + 1)
            ELSE [ pc |-> "lines", dir |-> watcher[w].dir, start |-> offset,
                   batch |-> SplitLines(SubSeq(files[d], offset + 1, file_size), offset),
                   i |-> 1, new_offset |-> file_size, calls |-> 0,
                   crashes |-> watcher[w].crashes ]]
    /\ UNCHANGED <<sessions, events, pending_reason_column, hist, inflight,
                   files, offsets, persisted, forwarded>>

\* open() or read() of a file raises (permissions, encoding): the except of
\* the while loop ends the iteration.
WatcherReadFails(w) ==
    /\ watcher[w].pc = "scan"
    /\ watcher[w].dir <= Len(BridgeDirs)
    /\ Len(files[DirOf(w)]) > OffsetOf(offsets[w], DirOf(w))
    /\ watcher' = [watcher EXCEPT ![w] = WatcherWaiting(w)]
    /\ UNCHANGED <<sessions, events, pending_reason_column, hist, inflight,
                   files, offsets, persisted, forwarded>>

\* A line that json.loads rejects: continue.
WatcherSkip(w) ==
    /\ watcher[w].pc = "lines"
    /\ ~BatchDone(w)
    /\ JsonLoads(LineOf(w)) = "error"
    /\ watcher' = [watcher EXCEPT ![w].i = @ + 1]
    /\ UNCHANGED <<sessions, events, pending_reason_column, hist, inflight,
                   files, offsets, persisted, forwarded>>

\* A line that is JSON but not an object: event.get raises AttributeError,
\* which the except of the while loop catches; the iteration ends.
WatcherRaise(w) ==
    /\ watcher[w].pc = "lines"
    /\ ~BatchDone(w)
    /\ JsonLoads(LineOf(w)) = "value"
    /\ watcher' = [watcher EXCEPT ![w] = WatcherWaiting(w)]
    /\ UNCHANGED <<sessions, events, pending_reason_column, hist, inflight,
                   files, offsets, persisted, forwarded>>

\* A record: track(data, source, tmux_pane_override).
WatcherForwardUpTo(w, max) ==
    /\ watcher[w].pc = "lines"
    /\ ~BatchDone(w)
    /\ JsonLoads(LineOf(w)) = "object"
    /\ Len(forwarded) < max
    /\ LET record == RecordOf(LineOf(w).kind) IN
            Ingest(record.session_id, record.data, record.tmux)
    /\ forwarded' = Append(forwarded,
            [watcher |-> w, run |-> watcher[w].crashes, dir |-> DirOf(w),
             pos |-> LineOf(w).pos, raised |-> FALSE])
    /\ watcher' = [watcher EXCEPT ![w].i = @ + 1, ![w].calls = @ + 1]
    /\ UNCHANGED <<pending_reason_column, inflight, files, offsets, persisted>>

WatcherForward(w) == WatcherForwardUpTo(w, MaxForwards)

\* After the last line: offsets[bridge_file] = new_offset, and save_offsets
\* opens the offsets file for writing, which empties it.
WatcherSaveOpen(w) ==
    /\ watcher[w].pc = "lines"
    /\ BatchDone(w)
    /\ offsets' = [offsets EXCEPT ![w] = SetOffset(@, DirOf(w), watcher[w].new_offset)]
    /\ persisted' = [text |-> "empty", table |-> << >>]
    /\ watcher' = [watcher EXCEPT ![w].pc = "save"]
    /\ UNCHANGED <<sessions, events, pending_reason_column, hist, inflight,
                   files, forwarded>>

\* save_offsets writes the dict and closes the file; on to the next
\* directory.
WatcherSaveWrite(w) ==
    /\ watcher[w].pc = "save"
    /\ persisted' = [text |-> "json", table |-> offsets[w]]
    /\ watcher' = [watcher EXCEPT ![w] = WatcherAt(w, watcher[w].dir + 1)]
    /\ UNCHANGED <<sessions, events, pending_reason_column, hist, inflight,
                   files, offsets, forwarded>>

\* The for loop is through the list: stop_event.wait(2).
WatcherSleep(w) ==
    /\ watcher[w].pc = "scan"
    /\ watcher[w].dir > Len(BridgeDirs)
    /\ watcher' = [watcher EXCEPT ![w] = WatcherWaiting(w)]
    /\ UNCHANGED <<sessions, events, pending_reason_column, hist, inflight,
                   files, offsets, persisted, forwarded>>

\* The wait times out with the stop event not set: the next iteration.
WatcherWake(w) ==
    /\ watcher[w].pc = "wait"
    /\ watcher' = [watcher EXCEPT ![w] = WatcherAt(w, 1)]
    /\ UNCHANGED <<sessions, events, pending_reason_column, hist, inflight,
                   files, offsets, persisted, forwarded>>

\* The process of the watcher dies (the thread is a daemon thread: it dies
\* with the dashboard); what it had in memory is lost.
WatcherCrash(w) ==
    /\ watcher[w].pc # "down"
    /\ watcher[w].crashes < MaxCrashes
    /\ watcher' = [watcher EXCEPT ![w] = WatcherDown(watcher[w].crashes + 1)]
    /\ offsets' = [offsets EXCEPT ![w] = << >>]
    /\ UNCHANGED <<sessions, events, pending_reason_column, hist, inflight,
                   files, persisted, forwarded>>

\* SpecBridge: one watcher, workers that append whole lines: lines of every
\* kind to the file of the first directory, records to the second.
NextBridge ==
    \/ \E k \in LineKinds : AppendLine(BridgeDirs[1], k)
    \/ AppendLine(BridgeDirs[2], "record")
    \/ WatcherStart(1)
    \/ WatcherScan(1)
    \/ WatcherReadFails(1)
    \/ WatcherSkip(1)
    \/ WatcherRaise(1)
    \/ WatcherForward(1)
    \/ WatcherSaveOpen(1)
    \/ WatcherSaveWrite(1)
    \/ WatcherSleep(1)
    \/ WatcherWake(1)
    \/ WatcherCrash(1)

SpecBridge == Init /\ [][NextBridge]_vars

\* A worker's append of one line reaches the file in two parts (two writes,
\* or one write that a reader sees half done): the first part ...
AppendFirst(d, kind) ==
    /\ Len(files[d]) % 2 = 0
    /\ Len(files[d]) < 2 * MaxLines
    /\ files' = [files EXCEPT ![d] = Append(@, Cell(kind, "first"))]
    /\ UNCHANGED <<sessions, events, pending_reason_column, hist, inflight,
                   offsets, persisted, watcher, forwarded>>

\* ... and the rest of the line, with its newline.
AppendLast(d) ==
    /\ Len(files[d]) % 2 = 1
    /\ files' = [files EXCEPT ![d] = Append(@, Cell(@[Len(@)].kind, "last"))]
    /\ UNCHANGED <<sessions, events, pending_reason_column, hist, inflight,
                   offsets, persisted, watcher, forwarded>>

\* SpecBridgeParts: one watcher, workers that append well-formed records,
\* whole or in two parts.
NextBridgeParts ==
    \/ \E d \in Range(BridgeDirs) : AppendLine(d, "record")
    \/ \E d \in Range(BridgeDirs) : AppendFirst(d, "record")
    \/ \E d \in Range(BridgeDirs) : AppendLast(d)
    \/ WatcherStart(1)
    \/ WatcherScan(1)
    \/ WatcherSkip(1)
    \/ WatcherForward(1)
    \/ WatcherSaveOpen(1)
    \/ WatcherSaveWrite(1)
    \/ WatcherSleep(1)
    \/ WatcherWake(1)
    \/ WatcherCrash(1)

SpecBridgeParts == Init /\ [][NextBridgeParts]_vars

\* A worker's file is rotated: it starts over, empty.
Truncate(d) ==
    /\ files[d] # << >>
    /\ files' = [files EXCEPT ![d] = << >>]
    /\ UNCHANGED <<sessions, events, pending_reason_column, hist, inflight,
                   offsets, persisted, watcher, forwarded>>

\* SpecBridgeRotate: one watcher, workers that append well-formed records
\* to files that get rotated.
NextBridgeRotate ==
    \/ \E d \in Range(BridgeDirs) : AppendLine(d, "record")
    \/ \E d \in Range(BridgeDirs) : Truncate(d)
    \/ WatcherStart(1)
    \/ WatcherScan(1)
    \/ WatcherForward(1)
    \/ WatcherSaveOpen(1)
    \/ WatcherSaveWrite(1)
    \/ WatcherSleep(1)
    \/ WatcherWake(1)
    \/ WatcherCrash(1)

SpecBridgeRotate == Init /\ [][NextBridgeRotate]_vars

\* SpecBridgeTwo: the watchers of two viewers (a dashboard and the web
\* server, or two dashboards) on one offsets file, one store and the file
\* of the first directory, to which workers append whole records.
NextBridgeTwo ==
    \/ \E k \in RecordKinds : AppendLine(BridgeDirs[1], k)
    \/ \E w \in Watchers : WatcherStart(w)
    \/ \E w \in Watchers : WatcherScan(w)
    \/ \E w \in Watchers : WatcherForward(w)
    \/ \E w \in Watchers : WatcherSaveOpen(w)
    \/ \E w \in Watchers : WatcherSaveWrite(w)
    \/ \E w \in Watchers : WatcherSleep(w)
    \/ \E w \in Watchers : WatcherWake(w)

SpecBridgeTwo == Init /\ [][NextBridgeTwo]_vars

\* SpecReplay: one watcher that can die and be started again, on one file
\* of permission requests and tool completions of one session.
NextReplay ==
    \/ \E k \in RecordKinds : AppendLineUpTo(BridgeDirs[1], k, MaxReplayLines)
    \/ WatcherStart(1)
    \/ WatcherScan(1)
    \/ WatcherForwardUpTo(1, MaxReplayForwards)
    \/ WatcherSaveOpen(1)
    \/ WatcherSaveWrite(1)
    \/ WatcherSleep(1)
    \/ WatcherWake(1)
    \/ WatcherCrash(1)

SpecReplay == Init /\ [][NextReplay]_vars

(***************************************************************************)
(* The stop signal. run_server sets stop_event when it is interrupted; the *)
(* watcher reads it in `while not stop_event.is_set()` and nowhere else    *)
(* (stop_event.wait(2) returns at once when it is set). The main thread of *)
(* the viewer is process 1 of inflight.                                    *)
(***************************************************************************)
StopIsSet == inflight[1].pc = "stopped"

\* KeyboardInterrupt in run_server: stop_event.set().
SetStop ==
    /\ inflight[1].pc = "idle"
    /\ inflight' = [inflight EXCEPT ![1] = [pc |-> "stopped"]]
    /\ UNCHANGED <<sessions, events, pending_reason_column, hist, bridge>>

\* The watcher after the while condition: out of the loop (the thread
\* returns) when the event is set, at the head of an iteration otherwise.
AfterWhile_ignores_stop(w) == WatcherAt(w, 1)
AfterWhile(w) ==
    IF StopIsSet THEN [WatcherAt(w, 1) EXCEPT !.pc = "exited"] ELSE WatcherAt(w, 1)

\* The thread starts: load_offsets(), then the while condition.
WatcherStartChecked(w) ==
    /\ watcher[w].pc = "down"
    /\ offsets' = [offsets EXCEPT ![w] = LoadOffsets(persisted)]
    /\ watcher' = [watcher EXCEPT ![w] = AfterWhile(w)]
    /\ UNCHANGED <<sessions, events, pending_reason_column, hist, inflight,
                   files, persisted, forwarded>>

\* stop_event.wait(2) returns (timeout, or the event is set), then the
\* while condition.
WatcherWakeChecked(w) ==
    /\ watcher[w].pc = "wait"
    /\ watcher' = [watcher EXCEPT ![w] = AfterWhile(w)]
    /\ UNCHANGED <<sessions, events, pending_reason_column, hist, inflight,
                   files, offsets, persisted, forwarded>>

\* The steps of the watcher thread in SpecStop.
WatcherRuns ==
    \/ WatcherStartChecked(1)
    \/ WatcherScan(1)
    \/ WatcherSkip(1)
    \/ WatcherRaise(1)
    \/ WatcherForward(1)
    \/ WatcherSaveOpen(1)
    \/ WatcherSaveWrite(1)
    \/ WatcherSleep(1)
    \/ WatcherWakeChecked(1)

\* SpecStop: one watcher on the file of the first directory, to which
\* workers append whole lines of every kind, and the interrupt of the
\* server. SpecStopFair: the watcher thread keeps being scheduled.
NextStop ==
    \/ \E k \in LineKinds : AppendLine(BridgeDirs[1], k)
    \/ SetStop
    \/ WatcherRuns

SpecStop == Init /\ [][NextStop]_vars

SpecStopFair == SpecStop /\ WF_vars(WatcherRuns)

(***************************************************************************)
(* Failures. handle_hook wraps json.load and track() in try / except       *)
(* Exception and then calls sys.exit(0); the watcher wraps each track()    *)
(* call in try / except Exception: pass.                                   *)
(***************************************************************************)
\* What can be raised inside handle_hook's try: json.load on text that is
\* not JSON, data.get on JSON that is not an object, sqlite3 on a store that
\* is locked or cannot be opened. All three derive from Exception.
HookErrors == {"JSONDecodeError", "AttributeError", "OperationalError"}

\* The exit status of the hook process: sys.exit(0) follows the try
\* statement, whatever was raised in it ("none" when nothing was).
ExitStatus_propagated(raised) == IF raised = "none" THEN 0 ELSE 1
ExitStatus(raised) == 0

\* The hook process p is through.
HookExited(p, raised) ==
    inflight' = [inflight EXCEPT ![p] =
        [pc |-> "exited", raised |-> raised, code |-> ExitStatus(raised)]]

\* handle_hook on a payload that track() ingests; a payload without
\* session_id is ingested for the session "unknown".
HandleHook(p, session_id, data, tmux) ==
    /\ Len(events) < MaxEvents
    /\ Ingest(Get(session_id, "unknown"), data, tmux)
    /\ HookExited(p, "none")
    /\ UNCHANGED <<pending_reason_column, bridge>>

\* handle_hook when json.load or track() raises: nothing is committed, the
\* message goes to stderr.
HandleHookFails(p, raised) ==
    /\ HookExited(p, raised)
    /\ UNCHANGED <<sessions, events, pending_reason_column, hist, bridge>>

\* Where the watcher goes when track() has raised: except Exception: pass,
\* and the for loop takes the next line.
AfterFailedForward_abandoned(w) == WatcherWaiting(w)
AfterFailedForward(w) == [watcher[w] EXCEPT !.i = @ + 1, !.calls = @ + 1]

\* track() raises on a record the watcher forwards (the store is locked):
\* nothing is committed.
WatcherForwardFails(w) ==
    /\ watcher[w].pc = "lines"
    /\ ~BatchDone(w)
    /\ JsonLoads(LineOf(w)) = "object"
    /\ Len(forwarded) < MaxForwards
    /\ forwarded' = Append(forwarded,
            [watcher |-> w, run |-> watcher[w].crashes, dir |-> DirOf(w),
             pos |-> LineOf(w).pos, raised |-> TRUE])
    /\ watcher' = [watcher EXCEPT ![w] = AfterFailedForward(w)]
    /\ UNCHANGED <<sessions, events, pending_reason_column, hist, inflight,
                   files, offsets, persisted>>

\* SpecFaults: a hook process and a watcher on a store that can fail.
NextFaults ==
    \/ \E s \in {"s1", Absent}, d \in SweepPayloads :
            HandleHook(1, s, d, TmuxInfo("", ""))
    \/ \E e \in HookErrors : HandleHookFails(1, e)
    \/ AppendLine(BridgeDirs[1], "record")
    \/ WatcherStart(1)
    \/ WatcherScan(1)
    \/ WatcherForward(1)
    \/ WatcherForwardFails(1)
    \/ WatcherSaveOpen(1)
    \/ WatcherSaveWrite(1)
    \/ WatcherSleep(1)
    \/ WatcherWake(1)

SpecFaults == Init /\ [][NextFaults]_vars

(***************************************************************************)
(* Properties.                                                             *)
(***************************************************************************)
\* A step that commits one ingest, and the observer entry of that ingest.
IngestStep == Len(hist') = Len(hist) + 1
Ingested == hist'[Len(hist')]

\* Counter and status of a session as an ingest finds them (0 and active
\* for a session that has no row yet).
PendingBefore(s) == IF s \in DOMAIN sessions THEN sessions[s].pending_permissions ELSE 0
StatusBefore(s) == IF s \in DOMAIN sessions THEN sessions[s].status ELSE "active"

\* The observer entries of one session, in commit order.
HistOf(s) == SelectSeq(hist, LAMBDA h : h.session_id = s)

\* Counter of a session after the first a entries of H (its own entries).
PendingAfter(H, a) == IF a = 0 THEN 0 ELSE H[a].pending

IsCompletion(h) == h.event_name \in {"PostToolUse", "PostToolUseFailure"}
IsIdleNotification(h) ==
    h.event_name = "Notification" /\ h.notification_type = "idle_prompt"
IsPermissionPrompt(h) ==
    h.event_name = "Notification" /\ h.notification_type = "permission_prompt"

\* C1: pending_permissions of every session is >= 0 in every reachable state,
\* and was >= 0 after every ingest; a tool completion that arrives with the
\* counter at 0 leaves it at 0.
C1_PendingNeverNegative ==
    /\ \A s \in DOMAIN sessions : sessions[s].pending_permissions >= 0
    /\ \A i \in DOMAIN hist : hist[i].pending >= 0
    /\ \A s \in SessionIds : \A i \in 1..Len(HistOf(s)) :
          (IsCompletion(HistOf(s)[i]) /\ PendingAfter(HistOf(s), i - 1) = 0)
              => HistOf(s)[i].pending = 0

\* A tool completion was ingested for an existing session whose counter was
\* 0, and the counter is 0.
C1_Witness ==
    \E s \in DOMAIN sessions : \E i \in 2..Len(HistOf(s)) :
        /\ IsCompletion(HistOf(s)[i])
        /\ PendingAfter(HistOf(s), i - 1) = 0
        /\ HistOf(s)[i].pending = 0
        /\ sessions[s].pending_permissions = 0

\* C2: ingesting Stop, SessionEnd or the idle_prompt notification sets the
\* counter to 0 whatever it was and whatever the status was, and sets the
\* status to ended (SessionEnd) or idle (Stop, idle_prompt).
C2_ResetEvents ==
    [][ ( IngestStep
          /\ ( Ingested.event_name \in {"Stop", "SessionEnd"}
               \/ IsIdleNotification(Ingested) ) )
        => /\ sessions'[Ingested.session_id].pending_permissions = 0
           /\ sessions'[Ingested.session_id].status =
                 (IF Ingested.event_name = "SessionEnd" THEN "ended" ELSE "idle")
      ]_vars

\* Each of the three events has been ingested for a session that was waiting
\* with a counter above 0, and left it at 0.
C2_Witness ==
    /\ Len(hist) = 3
    /\ hist[1].event_name = "PermissionRequest" /\ hist[1].pending = 1
    /\ hist[2].event_name = "PermissionRequest" /\ hist[2].pending = 2
    /\ \/ hist[3].event_name \in {"Stop", "SessionEnd"}
       \/ IsIdleNotification(hist[3])
    /\ hist[3].pending = 0

\* C3: from a counter of 0, n PermissionRequest events of a session followed
\* by n tool completions of that session, with no other event of the session
\* in between: after the first n the status is waiting and the counter n,
\* after all 2n the counter is 0 and the status active.
C3_MatchedRequests ==
    \A s \in SessionIds :
        LET H == HistOf(s) IN
        \A a \in 0..Len(H) : \A n \in 1..Len(H) :
            ( /\ a + n <= Len(H)
              /\ PendingAfter(H, a) = 0
              /\ \A i \in (a + 1)..(a + n) : H[i].event_name = "PermissionRequest" )
            => /\ H[a + n].status = "waiting"
               /\ H[a + n].pending = n
               /\ ( /\ a + 2 * n <= Len(H)
                    /\ \A i \in (a + n + 1)..(a + 2 * n) : IsCompletion(H[i]) )
                  => ( H[a + 2 * n].pending = 0 /\ H[a + 2 * n].status = "active" )

\* Three requests and their three completions have been ingested.
C3_Witness ==
    \E s \in SessionIds :
        LET H == HistOf(s) IN
        /\ Len(H) = 6
        /\ \A i \in 1..3 : H[i].event_name = "PermissionRequest"
        /\ \A i \in 4..6 : IsCompletion(H[i])
        /\ sessions[s].pending_permissions = 0
        /\ sessions[s].status = "active"

\* C4: a tool completion sets the counter to max(0, counter before - 1) and
\* the status to waiting if the new counter is > 0, to active otherwise; two
\* requests followed by one completion leave counter 1 and status waiting.
C4_Completion ==
    [][ (IngestStep /\ IsCompletion(Ingested))
        => LET s == Ingested.session_id
               before == PendingBefore(s)
               after == IF before - 1 > 0 THEN before - 1 ELSE 0
           IN  /\ sessions'[s].pending_permissions = after
               /\ sessions'[s].status = (IF after > 0 THEN "waiting" ELSE "active")
               /\ ( /\ Len(HistOf(s)) = 2
                    /\ HistOf(s)[1].event_name = "PermissionRequest"
                    /\ HistOf(s)[2].event_name = "PermissionRequest" )
                  => ( /\ sessions'[s].pending_permissions = 1
                       /\ sessions'[s].status = "waiting" )
      ]_vars

\* Two requests, then one completion: counter 1, still waiting.
C4_Witness ==
    /\ Len(hist) = 3
    /\ hist[1].event_name = "PermissionRequest"
    /\ hist[2].event_name = "PermissionRequest"
    /\ IsCompletion(hist[3])
    /\ sessions[hist[3].session_id].pending_permissions = 1
    /\ sessions[hist[3].session_id].status = "waiting"

\* C5: PermissionRequest sets status waiting and the counter to the counter
\* before + 1; the permission_prompt notification sets status waiting and
\* leaves the counter unchanged.
C5_PermissionRequest ==
    [][ IngestStep
        => LET s == Ingested.session_id IN
           /\ Ingested.event_name = "PermissionRequest"
                => /\ sessions'[s].status = "waiting"
                   /\ sessions'[s].pending_permissions = PendingBefore(s) + 1
           /\ IsPermissionPrompt(Ingested)
                => /\ sessions'[s].status = "waiting"
                   /\ sessions'[s].pending_permissions = PendingBefore(s)
      ]_vars

\* A request, its permission_prompt notification, and a second request.
C5_Witness ==
    /\ Len(hist) = 3
    /\ hist[1].event_name = "PermissionRequest" /\ hist[1].pending = 1
    /\ IsPermissionPrompt(hist[2]) /\ hist[2].pending = 1
    /\ hist[3].event_name = "PermissionRequest" /\ hist[3].pending = 2
    /\ sessions[hist[3].session_id].status = "waiting"

\* C6 as claimed: UserPromptSubmit and PreToolUse both set status active and
\* leave the counter unchanged.
C6_PromptKeepsPending ==
    [][ (IngestStep /\ Ingested.event_name \in {"UserPromptSubmit", "PreToolUse"})
        => /\ sessions'[Ingested.session_id].status = "active"
           /\ sessions'[Ingested.session_id].pending_permissions
                 = PendingBefore(Ingested.session_id)
      ]_vars

\* C6: UserPromptSubmit and PreToolUse both set status active; PreToolUse
\* leaves the counter unchanged, UserPromptSubmit sets it to 0.
C6_PromptResetsPending ==
    [][ (IngestStep /\ Ingested.event_name \in {"UserPromptSubmit", "PreToolUse"})
        => /\ sessions'[Ingested.session_id].status = "active"
           /\ sessions'[Ingested.session_id].pending_permissions
                 = (IF Ingested.event_name = "PreToolUse"
                    THEN PendingBefore(Ingested.session_id) ELSE 0)
      ]_vars

\* A PreToolUse and then a UserPromptSubmit arrived while the counter was 1.
C6_Witness ==
    /\ Len(hist) = 3
    /\ hist[1].event_name = "PermissionRequest" /\ hist[1].pending = 1
    /\ hist[2].event_name = "PreToolUse" /\ hist[2].pending = 1
    /\ hist[2].status = "active"
    /\ hist[3].event_name = "UserPromptSubmit" /\ hist[3].pending = 0
    /\ hist[3].status = "active"

\* The events the state machine passes through.
IsPassThrough(h) ==
    /\ h.event_name \notin { "SessionEnd", "Stop", "PermissionRequest", "PostToolUse",
                             "PostToolUseFailure", "UserPromptSubmit", "PreToolUse" }
    /\ ~IsIdleNotification(h)
    /\ ~IsPermissionPrompt(h)

\* C7: any other event leaves status and counter of an existing session as
\* they are, whatever the status; for a new session it yields active and 0.
C7_PassThrough ==
    [][ (IngestStep /\ IsPassThrough(Ingested))
        => LET s == Ingested.session_id IN
           IF s \in DOMAIN sessions
           THEN /\ sessions'[s].status = sessions[s].status
                /\ sessions'[s].pending_permissions = sessions[s].pending_permissions
           ELSE /\ sessions'[s].status = "active"
                /\ sessions'[s].pending_permissions = 0
      ]_vars

\* Pass-through events have been ingested for a dismissed session and for a
\* session the user marked pending.
C7_Witness ==
    \E i, j \in DOMAIN hist :
        /\ IsPassThrough(hist[i]) /\ hist[i].status = "dismissed"
        /\ IsPassThrough(hist[j]) /\ hist[j].status = "pending"

\* C8 as claimed: for every non-empty pane, at most one session on that pane
\* has a status other than ended and dismissed.
C8_OneSessionPerPane ==
    \A a, b \in DOMAIN sessions :
        ( /\ a # b
          /\ sessions[a].tmux_pane # ""
          /\ sessions[a].tmux_pane = sessions[b].tmux_pane )
        => \/ sessions[a].status \in {"ended", "dismissed"}
           \/ sessions[b].status \in {"ended", "dismissed"}

\* The status the state machine gives the first event of a session, from
\* status active and counter 0.
C9_FirstStatus(h) ==
    IF h.event_name = "SessionEnd" THEN "ended"
    ELSE IF h.event_name = "Stop" \/ IsIdleNotification(h) THEN "idle"
    ELSE IF h.event_name = "PermissionRequest" \/ IsPermissionPrompt(h) THEN "waiting"
    ELSE "active"

\* C9: when the first event of a new session arrives with a non-empty pane,
\* every other session on that pane that was not ended or dismissed is ended
\* afterwards, and the new session's status is the one of its own first event.
C9_ReclaimEndsOccupant ==
    [][ ( /\ IngestStep
          /\ Ingested.session_id \notin DOMAIN sessions
          /\ sessions'[Ingested.session_id].tmux_pane # "" )
        => LET s == Ingested.session_id IN
           /\ \A o \in DOMAIN sessions :
                ( /\ sessions[o].tmux_pane = sessions'[s].tmux_pane
                  /\ sessions[o].status \notin {"ended", "dismissed"} )
                => sessions'[o].status = "ended"
           /\ sessions'[s].status = C9_FirstStatus(Ingested)
      ]_vars

\* The last ingest created a session on a pane and ended the session that
\* held the pane; the new session is not ended.
C9_Witness ==
    /\ Len(hist) >= 2
    /\ LET h == hist[Len(hist)] IN
        /\ h.ended_others # {}
        /\ \A o \in h.ended_others :
              /\ sessions[o].status = "ended"
              /\ sessions[o].tmux_pane = sessions[h.session_id].tmux_pane
        /\ sessions[h.session_id].status = "waiting"

\* The counter after applying the events H[order[1]], H[order[2]], ... one
\* after the other, each on the counter the one before left.
RECURSIVE SerialPending(_, _, _)
SerialPending(H, order, k) ==
    IF k = 0 THEN 0
    ELSE NewPending(H[order[k]].event_name, H[order[k]].notification_type,
                    SerialPending(H, order, k - 1))

\* The orders in which n events can be applied.
Orders(n) == { f \in [1..n -> 1..n] : \A i, j \in 1..n : f[i] = f[j] => i = j }

\* C10 as claimed: once no ingest is under way, the counter of a session is
\* the one that applying its committed events in some serial order gives.
C10_SerialPending ==
    (\A p \in Procs : inflight[p].pc = "idle")
    => \A s \in DOMAIN sessions :
          \E order \in Orders(Len(HistOf(s))) :
              sessions[s].pending_permissions
                  = SerialPending(HistOf(s), order, Len(HistOf(s)))

\* The rows of the events table that belong to session s.
EventsOf(s) == SelectSeq(events, LAMBDA e : e.session_id = s)

\* C11: the row write of an ingest (the insert or update of its session and
\* the ending of the pane's other sessions) and its event row reach the
\* readers in one step: whenever the committed sessions table changes, the
\* events table gains exactly the event of the session written, and whenever
\* the events table changes it gains one row whose session has its row with
\* that event as last_event; a step that does neither changes neither, so an
\* ingest that ends before its commit leaves no trace. In every state the
\* tool_count of a row is the number of its session's tool events.
C11_RowAndEventTogether ==
    [][ /\ (sessions' # sessions \/ events' # events) =>
            /\ Len(events') = Len(events) + 1
            /\ SubSeq(events', 1, Len(events)) = events
            /\ LET e == events'[Len(events')] IN
                /\ e.session_id \in DOMAIN sessions'
                /\ sessions'[e.session_id].last_event = e.event_type
                /\ \A s \in DOMAIN sessions' \ DOMAIN sessions : s = e.session_id
        /\ \A s \in SessionIds :
            /\ (s \in DOMAIN sessions') <=> (EventsOf(s)' # << >>)
            /\ s \in DOMAIN sessions' =>
                  sessions'[s].tool_count =
                      Len(SelectSeq(EventsOf(s)', LAMBDA e : e.tool_name # ""))
      ]_vars

\* A hook process has written its session row and its event row inside its
\* transaction, the committed tables do not show the write, and an earlier
\* ingest is committed.
C11_Witness ==
    \E p \in Procs :
        /\ inflight[p].pc = "evented"
        /\ inflight[p].tx_sessions # sessions
        /\ Len(events) >= 1

\* A step in which the sweep of process p writes, and whether the step
\* changes the status of session s.
SweepWriteStep(p) == inflight[p].pc = "swept" /\ inflight'[p].pc = "done"
StatusChanges(s) == s \in DOMAIN sessions /\ sessions'[s].status # sessions[s].status

\* The pane a row records is one of the panes tmux reported to the sweep.
PaneLive(row, active_panes) ==
    \E g \in SweepGroups : <<g, row.tmux_pane>> \in active_panes

\* C12 (as stated): the sweep leaves the status of every session whose
\* recorded pane is live, whatever tmux session name the row records.
C12_LivePaneUntouched ==
    [][ \A p \in Procs : SweepWriteStep(p) =>
            \A s \in DOMAIN inflight[p].table :
                PaneLive(inflight[p].table[s], inflight[p].active_panes)
                    => ~StatusChanges(s) ]_vars

\* C12 (amended): the sweep leaves the status of every session whose
\* recorded (tmux session, pane) pair, both non-empty, is among the pairs
\* tmux reported.
C12_LivePairUntouched ==
    [][ \A p \in Procs : SweepWriteStep(p) =>
            \A s \in DOMAIN inflight[p].table :
                LET row == inflight[p].table[s] IN
                    ( /\ row.tmux_pane # ""
                      /\ row.tmux_session # ""
                      /\ <<row.tmux_session, row.tmux_pane>> \in inflight[p].active_panes )
                    => ~StatusChanges(s) ]_vars

\* A sweep has written: it found a waiting session with a live pair, which
\* is still waiting, and a stale session, which is ended.
C12_Witness ==
    \E p \in Procs :
        /\ inflight[p].pc = "done"
        /\ inflight[p].stale # {}
        /\ \A t \in inflight[p].stale : sessions[t].status = "ended"
        /\ \E s \in DOMAIN inflight[p].table :
            /\ inflight[p].table[s].status = "waiting"
            /\ <<inflight[p].table[s].tmux_session, inflight[p].table[s].tmux_pane>>
                    \in inflight[p].active_panes
            /\ sessions[s].status = "waiting"

C14_SweepOnlyEndsOpenSessions ==
    [][ \A p \in Procs : SweepWriteStep(p) =>
            \A s \in DOMAIN sessions :
                StatusChanges(s) =>
                    /\ sessions'[s].status = "ended"
                    /\ sessions[s].status \notin {"ended", "dismissed"} ]_vars

\* The lines of a batch that are well-formed records.
Records(batch) == { j \in 1..Len(batch) : JsonLoads(batch[j]) = "object" }

\* A step in which watcher w leaves the loop over the lines of a batch (and
\* does not crash).
BatchEnds(w) == watcher[w].pc = "lines" /\ watcher'[w].pc \notin {"lines", "down"}

\* C15: a batch of whole lines, some of them malformed (text that is not
\* JSON, or JSON that is not an object), ends with one track() call made for
\* each of its well-formed lines and with the offset of the file set past
\* all of its lines.
C15_MalformedLinesSkipped ==
    [][ \A w \in Watchers : BatchEnds(w) =>
            /\ watcher[w].calls = Cardinality(Records(watcher[w].batch))
            /\ OffsetOf(offsets'[w], DirOf(w)) = watcher[w].new_offset ]_vars

\* The offset of a directory's file in the offsets file.
PersistedOffset(d) == OffsetOf(LoadOffsets(persisted), d)

\* The offsets at which a whole well-formed record begins in a file.
RecordsIn(file) ==
    { pos \in 0..(Len(file) - 2) :
        /\ file[pos + 1] = Cell("record", "first")
        /\ file[pos + 2] = Cell("record", "last") }

\* track() has been called for the line at offset pos of d's file.
Forwarded(d, pos) ==
    \E j \in 1..Len(forwarded) : forwarded[j].dir = d /\ forwarded[j].pos = pos

\* C16: no well-formed record is passed over, which eventual forwarding
\* needs: a whole record of a bridge file that lies before the file's
\* persisted offset (from where on the watcher reads, now and after a
\* restart) has been forwarded.
C16_NoRecordPassedOver ==
    \A d \in Range(BridgeDirs) : \A pos \in RecordsIn(files[d]) :
        pos + 2 <= PersistedOffset(d) => Forwarded(d, pos)

\* C17: the offsets file is written only by the save that follows a batch,
\* when track() has been called for every record of the batch, and the save
\* leaves the end of the batch as the offset of the batch's file; while a
\* batch is under way the persisted offset of its file is the offset the
\* batch was read from; a crash during the batch leaves the offsets file as
\* it is, and the restarted watcher takes its offsets from the file, so it
\* reads the batch again from its first line.
C17_OffsetPersistedAfterBatch ==
    [][ \A w \in Watchers :
        /\ watcher'[w].pc = "lines" =>
                OffsetOf(LoadOffsets(persisted'), BridgeDirs[watcher'[w].dir])
                    = watcher'[w].start
        /\ persisted' # persisted =>
                \E v \in Watchers :
                    /\ watcher[v].pc \in {"lines", "save"}
                    /\ watcher'[v].pc \in {"save", "scan"}
                    /\ watcher[v].i > Len(watcher[v].batch)
                    /\ watcher[v].calls = Cardinality(Records(watcher[v].batch))
                    /\ \A j \in Records(watcher[v].batch) :
                            Forwarded(DirOf(v), watcher[v].batch[j].pos)
                    /\ watcher'[v].pc = "scan" =>
                            OffsetOf(LoadOffsets(persisted'), DirOf(v))
                                = watcher[v].new_offset
        /\ (watcher[w].pc = "lines" /\ watcher'[w].pc = "down") =>
                persisted' = persisted
        /\ (watcher[w].pc = "down" /\ watcher'[w].pc # "down") =>
                \A d \in Range(BridgeDirs) :
                    OffsetOf(offsets'[w], d) = OffsetOf(LoadOffsets(persisted'), d)
      ]_vars

\* The watcher crashed in a batch after forwarding its first record, and
\* after the restart it has forwarded that record again and persisted the
\* offset past it (no line of the files is one that ends the iteration).
C17_Witness ==
    /\ watcher[1].crashes >= 1
    /\ \A d \in Range(BridgeDirs) : \A c \in 1..Len(files[d]) :
            files[d][c].kind # "scalar"
    /\ \E j, k \in 1..Len(forwarded) :
        /\ j < k
        /\ forwarded[j].dir = forwarded[k].dir
        /\ forwarded[j].pos = forwarded[k].pos
        /\ PersistedOffset(forwarded[j].dir) >= forwarded[j].pos + 2

\* The offset the offsets file holds for a directory (none counts as 0).
OffsetOnFile(d) == OffsetOf(persisted.table, d)

C19_ShrunkFileRescanned ==
    [][ ( /\ watcher[1].pc = "scan"
          /\ watcher[1].dir <= Len(BridgeDirs)
          /\ watcher'[1] # watcher[1]
          /\ watcher'[1].pc # "down"
          /\ files[DirOf(1)] # << >>
          /\ Len(files[DirOf(1)]) < OffsetOf(offsets[1], DirOf(1)) ) =>
            /\ watcher'[1].pc = "lines"
            /\ watcher'[1].start = 0
            /\ watcher'[1].batch = SplitLines(files[DirOf(1)], 0) ]_vars

\* C20: an iteration of the watcher does not end before the watcher has
\* come to the last directory of the list: when a directory fails (its file
\* cannot be read, or handling one of its lines raises), the directories
\* after it still get their turn in that iteration.
C20_LaterDirectoriesProcessed ==
    [][ \A w \in Watchers :
            (watcher[w].pc \in {"scan", "lines", "save"} /\ watcher'[w].pc = "wait")
                => watcher[w].dir >= Len(BridgeDirs) ]_vars

\* Two track() calls of one run of one watcher on one file.
SameRun(a, b) == a.watcher = b.watcher /\ a.run = b.run /\ a.dir = b.dir

\* C21: within one run of the watcher, a record of a file is forwarded
\* before every record that comes after it in the file: a track() call for
\* a line is never preceded, among the calls of its run, by the call for a
\* later line of the file without a call for the line itself before that.
C21_FileOrder ==
    \A j, k \in 1..Len(forwarded) :
        (SameRun(forwarded[j], forwarded[k]) /\ forwarded[k].pos < forwarded[j].pos) =>
            \E i \in 1..(j - 1) :
                SameRun(forwarded[i], forwarded[k]) /\ forwarded[i].pos = forwarded[k].pos

\* The watcher has forwarded two records of one file in one run, the
\* earlier one first.
C21_Witness ==
    \E j, k \in 1..Len(forwarded) :
        /\ j < k
        /\ SameRun(forwarded[j], forwarded[k])
        /\ forwarded[j].pos < forwarded[k].pos

\* C22: the offset that the offsets file holds for a bridge file never
\* decreases. Every offset a running watcher has in memory (outside its
\* save) has been on the offsets file, so the offsets file, whenever it is
\* complete, holds for every file at least the offset that any running
\* watcher has for it.
C22_OffsetNeverDecreases ==
    persisted.text = "json" =>
        \A w \in Watchers : watcher[w].pc \notin {"down", "save"} =>
            \A d \in Range(BridgeDirs) :
                OffsetOnFile(d) >= OffsetOf(offsets[w], d)

\* The sessions table a single watcher leaves when it has forwarded the
\* first n lines of a file of records, starting from the table sess.
RECURSIVE IngestLines(_, _, _)
IngestLines(sess, file, n) ==
    IF n = 0 THEN sess
    ELSE LET before == IngestLines(sess, file, n - 1)
             record == RecordOf(file[2 * n - 1].kind)
         IN  WriteSession(before,
                TrackLocals(record.session_id, record.data, record.tmux, before))

\* Watcher w has come to the end of every bridge file and sleeps.
Consumed(w) ==
    /\ watcher[w].pc = "wait"
    /\ \A d \in Range(BridgeDirs) : OffsetOf(offsets[w], d) = Len(files[d])

\* C23: when both watchers have consumed the file, every session has the
\* status and the pending_permissions that one watcher alone, forwarding
\* the lines of the file once and in order, leaves.
C23_TwoWatchersAsOne ==
    (\A w \in Watchers : Consumed(w)) =>
        LET file == files[BridgeDirs[1]]
            single == IngestLines(<< >>, file, Len(file) \div 2)
        IN  /\ DOMAIN sessions = DOMAIN single
            /\ \A s \in DOMAIN single :
                /\ sessions[s].status = single[s].status
                /\ sessions[s].pending_permissions = single[s].pending_permissions

\* C24: a watcher that is started again from a stale offset forwards again,
\* in file order, lines that were forwarded before it died. When it has
\* come to the last line that was forwarded before, the status of the
\* session is what it was when that line was forwarded the first time.
C24_ReplayKeepsStatus ==
    \A n \in 1..(Len(forwarded) - 1) :
        (forwarded[n].run = 0 /\ forwarded[n + 1].run = 1) =>
            \A m \in (n + 1)..Len(forwarded) :
                forwarded[m].pos = forwarded[n].pos =>
                    hist[m].status = hist[n].status

\* C25: when the first k of the n records that were applied to a session
\* are applied again in the same order (k < n: the watcher died before it
\* persisted an offset and reads the file from the start again), the status
\* of the session after the k-th is what it was after the n-th.
C25_PrefixReplayKeepsStatus ==
    \A n \in 2..Len(forwarded) : \A k \in 1..(n - 1) :
        ( /\ n + k <= Len(forwarded)
          /\ forwarded[n].run = 0
          /\ forwarded[n + 1].run = 1
          /\ \A j \in 1..k : forwarded[n + j].pos = forwarded[j].pos ) =>
            hist[n + k].status = hist[n].status

\* A step in which a track() call of the watcher raises.
ForwardFailsStep ==
    /\ Len(forwarded') = Len(forwarded) + 1
    /\ forwarded'[Len(forwarded')].raised

\* C26: ingestion never surfaces a failure. The hook process exits with
\* status 0 whatever was raised in it, and whatever it was given (a payload
\* without session_id included); a track() call of the watcher that raises
\* leaves the watcher in its batch, at the line after the one that failed.
C26_FailuresNotSurfaced ==
    /\ [](\A p \in Procs : inflight[p].pc = "exited" => inflight[p].code = 0)
    /\ [][ForwardFailsStep =>
            /\ watcher'[1].pc = "lines"
            /\ watcher'[1].batch = watcher[1].batch
            /\ watcher'[1].i = watcher[1].i + 1]_vars

\* A hook process has exited after a failure, and the watcher has forwarded
\* the record that follows one whose track() call raised.
C26_Witness ==
    /\ \E p \in Procs : inflight[p].pc = "exited" /\ inflight[p].raised # "none"
    /\ "unknown" \in DOMAIN sessions
    /\ \E j, k \in 1..Len(forwarded) :
        /\ j < k
        /\ forwarded[j].raised
        /\ ~forwarded[k].raised
        /\ forwarded[k].pos > forwarded[j].pos
        /\ forwarded[k].run = forwarded[j].run

\* C27: a payload without hook_event_name is ingested as an event of type
\* unknown: the ingest appends one row to the events table, of that type
\* and for that session, and leaves status and counter of a session that
\* has a row as they are.
C27_UnnamedEventIngested ==
    [][ (IngestStep /\ Ingested.event_name = "unknown") =>
            LET s == Ingested.session_id IN
            /\ Len(events') = Len(events) + 1
            /\ events'[Len(events')].event_type = "unknown"
            /\ events'[Len(events')].session_id = s
            /\ s \in DOMAIN sessions =>
                /\ sessions'[s].status = sessions[s].status
                /\ sessions'[s].pending_permissions = sessions[s].pending_permissions
      ]_vars

\* An event without a name has been ingested for a session that waits for
\* a permission, and is the last row of the events table.
C27_Witness ==
    /\ Len(hist) >= 2
    /\ hist[Len(hist)].event_name = "unknown"
    /\ hist[Len(hist)].status = "waiting"
    /\ hist[Len(hist)].pending = 1
    /\ events[Len(events)].event_type = "unknown"

\* C28: a session id has one row from its first ingested event on. No step
\* removes a row; a row appears only with the commit of the first event of
\* its id; every commit leaves the row of its id with that event as
\* last_event, and, when the row was there, with counters that did not go
\* back, whatever the status of the row. Two first events of one id that
\* are ingested at the same time leave the row of the one that commits.
C28_OneRowPerSession ==
    [][ /\ DOMAIN sessions \subseteq DOMAIN sessions'
        /\ \A s \in DOMAIN sessions' \ DOMAIN sessions :
            /\ IngestStep
            /\ Ingested.session_id = s
            /\ HistOf(s) = << >>
        /\ IngestStep =>
            LET s == Ingested.session_id IN
            /\ s \in DOMAIN sessions'
            /\ sessions'[s].last_event = Ingested.event_name
            /\ s \in DOMAIN sessions =>
                /\ sessions'[s].prompt_count >= sessions[s].prompt_count
                /\ sessions'[s].tool_count >= sessions[s].tool_count
      ]_vars

\* A session has its row while a second process, which found no row for
\* that id, is about to insert one.
C28_Witness ==
    \E p \in Procs :
        /\ inflight[p].pc = "selected"
        /\ ~inflight[p].loc.existing
        /\ inflight[p].loc.session_id \in DOMAIN sessions

\* C29 as claimed: no ingest (of the session's own events or of the first
\* event of a session that takes its pane) and no write of the sweep
\* changes the status of a session that is dismissed.
C29_DismissedStays ==
    [][ (IngestStep \/ \E p \in Procs : SweepWriteStep(p)) =>
            \A s \in DOMAIN sessions :
                sessions[s].status = "dismissed" =>
                    sessions'[s].status = "dismissed" ]_vars

\* C30: the commit of an event of session x leaves the row of every other
\* session y as it is, but for one case: x gets its row with this commit,
\* on a non-empty pane, and y is on that pane with a status other than
\* ended and dismissed; then the status of y, and nothing else of y,
\* changes, to ended.
C30_OtherSessionsUntouched ==
    [][ IngestStep =>
            LET x == Ingested.session_id IN
            \A y \in DOMAIN sessions \ {x} :
                \/ sessions'[y] = sessions[y]
                \/ /\ x \notin DOMAIN sessions
                   /\ sessions'[x].tmux_pane # ""
                   /\ sessions[y].tmux_pane = sessions'[x].tmux_pane
                   /\ sessions[y].status \notin {"ended", "dismissed"}
                   /\ sessions'[y] = [sessions[y] EXCEPT !.status = "ended"]
      ]_vars

\* A session took the pane of another and ended it; the ended session then
\* got a further event, which left the session on the pane open.
C30_Witness ==
    \E i, j, k \in DOMAIN hist :
        /\ i < j /\ j < k
        /\ hist[i].session_id # hist[j].session_id
        /\ hist[j].ended_others = {hist[i].session_id}
        /\ hist[k].session_id = hist[i].session_id
        /\ hist[k].ended_others = {}
        /\ sessions[hist[j].session_id].status \notin {"ended", "dismissed"}

\* A step in which the dashboard process p has run action_toggle_pending.
ToggledStep(p) == inflight'[p].pc = "toggled" /\ inflight'[p] # inflight[p]

\* C31 as claimed: the pending key sets the status of a session shown as
\* pending to idle and of any other session to pending, and leaves the
\* counter as it is.
C31_TogglePending ==
    [][ \A p \in Procs : ToggledStep(p) =>
            LET s == inflight'[p].session_id IN
            /\ sessions'[s].status =
                    IF inflight'[p].shown = "pending" THEN "idle" ELSE "pending"
            /\ sessions'[s].pending_permissions = sessions[s].pending_permissions
      ]_vars

\* The part of C31 that holds whatever the schema: the pending key leaves
\* the counter, and every column but the status, as it is.
C31_ToggleKeepsCounter ==
    [][ \A p \in Procs : ToggledStep(p) =>
            LET s == inflight'[p].session_id IN
            sessions' = [sessions EXCEPT ![s].status = sessions'[s].status]
      ]_vars

\* C32 as claimed, the part that finite runs refute: the watcher leaves the
\* while loop only at the while condition, with the stop signal set; with
\* the signal set no iteration begins; a batch that has begun ends with a
\* track() call made for each of its records and the offset set past it,
\* and the save that follows puts that offset on the offsets file.
C32_StopBetweenIterations ==
    [][ /\ (watcher'[1].pc = "exited" /\ watcher[1].pc # "exited") =>
                StopIsSet /\ watcher[1].pc \in {"wait", "down"}
        /\ (StopIsSet /\ watcher'[1] # watcher[1]) =>
                ~(watcher'[1].pc = "scan" /\ watcher'[1].dir = 1)
        /\ BatchEnds(1) =>
                /\ watcher[1].calls = Cardinality(Records(watcher[1].batch))
                /\ OffsetOf(offsets'[1], DirOf(1)) = watcher[1].new_offset
        /\ (watcher[1].pc = "save" /\ watcher'[1] # watcher[1]) =>
                OffsetOf(LoadOffsets(persisted'), DirOf(1)) = watcher[1].new_offset
      ]_vars

\* C32, the part that holds: the watcher leaves the loop only at the while
\* condition with the signal set, and begins no iteration once it is set.
C32_ExitOnlyAtWhile ==
    [][ /\ (watcher'[1].pc = "exited" /\ watcher[1].pc # "exited") =>
                StopIsSet /\ watcher[1].pc \in {"wait", "down"}
        /\ (StopIsSet /\ watcher'[1] # watcher[1]) =>
                ~(watcher'[1].pc = "scan" /\ watcher'[1].dir = 1)
      ]_vars

\* C32, termination: once the stop signal is set (with room left in the
\* log of track() calls for one more batch) the watcher thread returns.
C32_Terminates ==
    (StopIsSet /\ Len(forwarded) + MaxLines <= MaxForwards) ~> (watcher[1].pc = "exited")

\* C33: the events table only grows, and only by ingests: every step
\* leaves the rows it finds as they are, in their order; a step that
\* commits an ingest appends exactly one row, with the session id and the
\* event type of that ingest; no other step appends a row.
C33_EventLogGrows ==
    [][ /\ Len(events') >= Len(events)
        /\ SubSeq(events', 1, Len(events)) = events
        /\ IngestStep =>
            /\ Len(events') = Len(events) + 1
            /\ events'[Len(events')].session_id = Ingested.session_id
            /\ events'[Len(events')].event_type = Ingested.event_name
        /\ events' # events => IngestStep
      ]_vars

\* Three events of two sessions are in the table, and one of the sessions
\* has been dismissed since.
C33_Witness ==
    /\ Len(events) = 3
    /\ \E i, j \in 1..3 : events[i].session_id # events[j].session_id
    /\ \E s \in DOMAIN sessions : sessions[s].status = "dismissed"

\* prompt_count and tool_count of a session, 0 for a session without a row.
CountBefore(s, column) == IF s \in DOMAIN sessions THEN sessions[s][column] ELSE 0

\* No step takes a counter of a session back.
CountersNeverDecrease ==
    \A s \in DOMAIN sessions :
        /\ sessions'[s].prompt_count >= sessions[s].prompt_count
        /\ sessions'[s].tool_count >= sessions[s].tool_count

\* C34 as claimed: no step takes prompt_count or tool_count of a session
\* back; an ingest adds 1 to prompt_count exactly when its event is
\* UserPromptSubmit, and 1 to tool_count exactly when its event carries a
\* tool name.
C34_Counters ==
    [][ /\ CountersNeverDecrease
        /\ IngestStep =>
            LET s == Ingested.session_id
                e == events'[Len(events')] IN
            /\ sessions'[s].prompt_count = CountBefore(s, "prompt_count") +
                    (IF e.event_type = "UserPromptSubmit" THEN 1 ELSE 0)
            /\ sessions'[s].tool_count = CountBefore(s, "tool_count") +
                    (IF e.tool_name # "" THEN 1 ELSE 0)
      ]_vars

\* C34 for the events the hooks of the agent send, in which no
\* UserPromptSubmit carries a tool name.
C34_CountersOfHookEvents ==
    [][ /\ CountersNeverDecrease
        /\ IngestStep =>
            LET s == Ingested.session_id
                e == events'[Len(events')] IN
            ~(e.event_type = "UserPromptSubmit" /\ e.tool_name # "") =>
                /\ sessions'[s].prompt_count = CountBefore(s, "prompt_count") +
                        (IF e.event_type = "UserPromptSubmit" THEN 1 ELSE 0)
                /\ sessions'[s].tool_count = CountBefore(s, "tool_count") +
                        (IF e.tool_name # "" THEN 1 ELSE 0)
      ]_vars

\* C35: event processing leaves is_priority alone. A step that commits an
\* ingest, or that changes the status of a session (a sweep, a reclaim, a
\* dismissal), leaves is_priority of every session as it is, and a session
\* that gets its row has is_priority 0; so the value is the one the user's
\* priority key set last.
C35_PriorityUntouched ==
    [][ (IngestStep \/ \E s \in DOMAIN sessions : StatusChanges(s)) =>
            \A s \in DOMAIN sessions' :
                sessions'[s].is_priority =
                    IF s \in DOMAIN sessions THEN sessions[s].is_priority ELSE 0
      ]_vars

\* A session that the user marked as priority has received a further event
\* and was then ended, still marked.
C35_Witness ==
    \E s \in DOMAIN sessions :
        /\ sessions[s].is_priority = 1
        /\ sessions[s].status = "ended"
        /\ Len(HistOf(s)) >= 2

\* A step in which process p commits the ingest it has under way.
CommitStep(p) ==
    inflight[p].pc = "selected" /\ inflight'[p].pc = "idle" /\ IngestStep

\* What an UPDATE leaves in a column that is merged: the incoming value
\* when it is not empty, the stored value otherwise.
Merged(incoming, stored) == IF incoming # "" THEN incoming ELSE stored

\* C36: the commit of an event of a session that has its row writes pane,
\* model, project directory and transcript path only from values of the
\* event that are not empty (an absent value counts as empty), and writes
\* last_activity, last_event, status and pending_permissions always.
C36_MergeOnUpdate ==
    [][ \A p \in Procs : CommitStep(p) =>
            LET loc == inflight[p].loc
                s == loc.session_id IN
            s \in DOMAIN sessions =>
                /\ sessions'[s].tmux_pane = Merged(loc.pane, sessions[s].tmux_pane)
                /\ sessions'[s].model = Merged(loc.model, sessions[s].model)
                /\ sessions'[s].project_dir = Merged(loc.cwd, sessions[s].project_dir)
                /\ sessions'[s].transcript_path =
                        Merged(loc.transcript_path, sessions[s].transcript_path)
                /\ sessions'[s].last_activity = loc.now
                /\ sessions'[s].last_event = loc.event_name
                /\ sessions'[s].status = loc.status
                /\ sessions'[s].pending_permissions = loc.new_pending
      ]_vars

\* A session has the model of a later event that carried a model and no
\* directory, an empty transcript path and no pane, and keeps directory,
\* transcript path and pane of an earlier event.
C36_Witness ==
    /\ "s1" \in DOMAIN sessions
    /\ Len(hist) >= 2
    /\ sessions["s1"].model = "sonnet"
    /\ sessions["s1"].project_dir = "/src/a"
    /\ sessions["s1"].transcript_path = "/src/a/t.jsonl"
    /\ sessions["s1"].tmux_pane = "%3"
    /\ sessions["s1"].last_activity > 0
    /\ \A p \in Procs : inflight[p].pc = "idle"

\* C37: a sweep whose tmux list-panes raised, or printed nothing, ends
\* every session that its SELECT found active, waiting or idle, whatever
\* pane the session records.
C37_NoPanesEndsAll ==
    [][ ( /\ SweepWriteStep(1)
          /\ inflight[1].listed.raised \/ inflight[1].listed.stdout = {} ) =>
            \A s \in DOMAIN inflight[1].table :
                inflight[1].table[s].status \in {"active", "waiting", "idle"} =>
                    sessions'[s].status = "ended"
      ]_vars

\* A sweep whose list-panes raised has ended a session that was waiting in
\* a pane of a tmux session.
C37_Witness ==
    /\ inflight[1].pc = "done"
    /\ inflight[1].listed.raised
    /\ \E s \in DOMAIN inflight[1].table :
        /\ inflight[1].table[s].status = "waiting"
        /\ inflight[1].table[s].tmux_pane # ""
        /\ inflight[1].table[s].tmux_session # ""
        /\ sessions[s].status = "ended"

\* The session whose row this step ended or dismissed from outside: by the
\* sweep, by the dismiss action, or by the ingest of another session that
\* reclaimed its pane.
EndedFromOutside(s) ==
    /\ StatusChanges(s)
    /\ sessions'[s].status \in {"ended", "dismissed"}
    /\ ~(IngestStep /\ Ingested.session_id = s)

\* A tool completion ingested for a session that is ended or dismissed.
CompletionOfClosed ==
    /\ IngestStep
    /\ IsCompletion(Ingested)
    /\ Ingested.session_id \in DOMAIN sessions
    /\ sessions[Ingested.session_id].status \in {"ended", "dismissed"}

\* C38: a step that force-ends or dismisses a session changes the status
\* column of its row and nothing else, and a tool completion ingested for
\* an ended or dismissed session decrements the counter the row kept and
\* yields waiting when the result is positive, active otherwise.
C38_EndKeepsCounter ==
    [][ /\ \A s \in DOMAIN sessions : EndedFromOutside(s) =>
                sessions'[s] = [sessions[s] EXCEPT !.status = sessions'[s].status]
        /\ CompletionOfClosed =>
                LET s == Ingested.session_id
                    n == Max(0, sessions[s].pending_permissions - 1) IN
                /\ sessions'[s].pending_permissions = n
                /\ sessions'[s].status = IF n > 0 THEN "waiting" ELSE "active"
      ]_vars

\* A session was dismissed with two permission requests outstanding, and
\* a completion for it can still be ingested.
C38_Witness ==
    /\ "s1" \in DOMAIN sessions
    /\ sessions["s1"].status = "dismissed"
    /\ sessions["s1"].pending_permissions = 2
    /\ Len(hist) = 2
    /\ hist[2].status = "waiting"

\* A session ended by the reclaim of its pane keeps its counter.
C38_ReclaimWitness ==
    /\ DOMAIN sessions = {"s1", "s2"}
    /\ sessions["s1"].status = "ended"
    /\ sessions["s1"].pending_permissions = 1
    /\ Len(hist) = 2
    /\ hist[2].ended_others = {"s1"}

\* The watcher is through with a file it read: on to the next directory,
\* or out of the iteration.
ReadEnds(w) ==
    watcher[w].pc \in {"lines", "save"} /\ watcher'[w].pc \in {"scan", "wait"}

\* C39: when the watcher is through with a file it read, the offset of the
\* file in memory and the offset in the offsets file both equal the end
\* offset of the read.
C39_OffsetAfterRead ==
    [][ \A w \in Watchers : ReadEnds(w) =>
            /\ OffsetOf(offsets'[w], DirOf(w)) = watcher[w].new_offset
            /\ OffsetOf(LoadOffsets(persisted'), DirOf(w)) = watcher[w].new_offset
      ]_vars

\* C39, the case it names: within one run the watcher forwards no line of a
\* file twice.
C39_NoReforward ==
    \A j, k \in 1..Len(forwarded) :
        (j < k /\ SameRun(forwarded[j], forwarded[k]))
            => forwarded[j].pos # forwarded[k].pos

\* C39 for the batches that json.loads and event.get let through: a read
\* whose lines are all records or text that is not JSON ends with both
\* offsets at the end of the read.
C39_OffsetAfterCleanRead ==
    [][ \A w \in Watchers :
            ( /\ ReadEnds(w)
              /\ \A i \in 1..Len(watcher[w].batch) :
                    JsonLoads(watcher[w].batch[i]) # "value" ) =>
                /\ OffsetOf(offsets'[w], DirOf(w)) = watcher[w].new_offset
                /\ OffsetOf(LoadOffsets(persisted'), DirOf(w)) = watcher[w].new_offset
      ]_vars

\* The statuses a session can be in, and those derive_status can return
\* for an event that is a status signal.
AllStatuses == {"active", "idle", "waiting", "pending", "ended", "dismissed"}
SignalStatuses == {"active", "idle", "waiting", "ended"}

\* C40: every status is one of the six; an ingest leaves the session of its
\* event in active, idle, waiting or ended, or (pass-through event, existing
\* row) in the status the row had; and no ingest takes any session into
\* pending or dismissed.
C40_StatusWrites ==
    [][ /\ \A s \in DOMAIN sessions' : sessions'[s].status \in AllStatuses
        /\ IngestStep =>
            LET s == Ingested.session_id IN
            /\ \/ sessions'[s].status \in SignalStatuses
               \/ /\ IsPassThrough(Ingested)
                  /\ s \in DOMAIN sessions
                  /\ sessions'[s].status = sessions[s].status
            /\ \A o \in DOMAIN sessions' :
                    sessions'[o].status \in {"pending", "dismissed"} =>
                        /\ o \in DOMAIN sessions
                        /\ sessions[o].status = sessions'[o].status
      ]_vars

\* A pass-through event has been ingested for a dismissed session, which
\* is still dismissed, and the counter shows the event was counted.
C40_Witness ==
    /\ "s1" \in DOMAIN sessions
    /\ sessions["s1"].status = "dismissed"
    /\ Len(hist) >= 2
    /\ IsPassThrough(hist[Len(hist)])
    /\ hist[Len(hist)].status = "dismissed"

\* Two hooks of a dismissed session at once: a pass-through event has read
\* the row as dismissed, the permission request of the other hook has been
\* committed since (waiting), and the commit of the first is still to come.
C40_StaleDismissed ==
    \E p \in Procs :
        /\ inflight[p].pc = "selected"
        /\ inflight[p].loc.existing
        /\ inflight[p].loc.event_name = "SubagentStart"
        /\ inflight[p].loc.status = "dismissed"
        /\ sessions[inflight[p].loc.session_id].status = "waiting"
        /\ Len(hist) >= 1
        /\ hist[Len(hist)].session_id = inflight[p].loc.session_id
        /\ hist[Len(hist)].event_name = "PermissionRequest"

====
